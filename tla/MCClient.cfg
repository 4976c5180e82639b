\* Two lists of up to three rows on pages of two; bytes of six values.
SPECIFICATION Spec
CONSTANTS
  contacts = contacts
  memo = memo
  e1 = e1
  e2 = e2
  List <- TwoLists
  NoList = NoList
  Entry <- TwoEntries
  PageSize = 2
  MaxId = 3
  FilesPerPage = 2
  ByteRange = 6
  MaxFiles = 6
SYMMETRY Symmetry
INVARIANTS TypeOK ListsAreNumbered LocalIsKept PagesAreRight
PROPERTY ChosenLineOnly
CONSTRAINT Small
