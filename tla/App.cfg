\* Two connections, replies in pieces, a master that goes, every click at any time; bytes of two bits.
SPECIFICATION FairSpec
CONSTANTS
  Servers = 2
  Mishaps = {"split", "gone", "unclear", "letters"}
  MaxReaders = 2
  ByteBits = 2
INVARIANTS
  AppTypeOK
  CalmNoCrash
  CalmOneSocket
  CalmWholeList
  NumbersNotMistaken
PROPERTIES
  CalmReaderEnds
  CalmListComes
CHECK_DEADLOCK FALSE
