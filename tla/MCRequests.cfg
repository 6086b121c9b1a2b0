SPECIFICATION Spec
CONSTANTS
  Nil = Nil
  Addresses <- mcAddresses
  FilesPresent <- mcFiles
  Number <- mcNumber
  BadPattern = {"("}
  Client = {"caller", "submitter", "browser"}
  Inputs <- mcInputs
  Certs <- mcCerts
  Calls = {1, 2}
  Bodies <- mcBodies
  Queries <- mcQueries
  Columns <- mcColumns
  Offsets <- mcOffsets
  Attributes <- mcAttributes
  MaxChips = 2
INVARIANTS
  TypeOK
  AdmittedByRole
  ProbesAnswered
  JobsMatchAnswers
PROPERTIES
  LinksKeepFilter
  
