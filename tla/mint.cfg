\* Two activations of the hourly job that may overlap, a fishing result
\* and the trophy it won, which have one image, and a mishap anywhere.
CONSTANTS
  catch1 = catch1
  trophy1 = trophy1
  catches = catches
  trophies = trophies
  picture = picture
  NoContent = NoContent
  Content = {catch1, trophy1}
  Collections = {catches, trophies}
  CollectionOf <- KindOf
  RowFirst = {catch1}
  Basis <- WonWith
  Images = {picture}
  ImageOf <- OneImage
  Runs = {r1, r2}
  Visits <- AllCollections
  MaxMishaps = 1
SPECIFICATION FairSpec
INVARIANTS LinkComplete DuplicatesExplained
PROPERTIES EventuallyMinted
CHECK_DEADLOCK FALSE
