------------------------- MODULE PushNotificationMC -------------------------
(* Instances of PushNotification for TLC. *)
EXTENDS PushNotification

CONSTANTS n1, n2, ann, bob, d1, d2

\* One notice for each of two members.
OneEach == [n \in Notices |-> IF n = n1 THEN ann ELSE bob]

\* Nobody has registered a device, or one member has.
First == {NoDevices, [d \in Devices |-> IF d = d1 THEN ann ELSE NoMember]}
=============================================================================
