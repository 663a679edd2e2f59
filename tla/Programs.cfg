SPECIFICATION AllSpec
CONSTANTS
  Half = 32
  Rounds = 16
  Initial <- DES_Initial
  Final <- DES_Final
  Texts <- MCTexts
  Keys = {1, 2, 3}
  Subkeys <- MCSubkeys
  Schedule <- MCSchedule
  Mix <- MCMix
  f1 = f1
  f2 = f2
  k1 = k1
  k2 = k2
  t1 = t1
  t2 = t2
  NoFile = NoFile
  MostRead = 3
  FirstCap = 4
  Lengths = {0, 3, 5, 8}
  Reads = {1, 2, 4}
  Widths = {8, 18, 80}
  Percents = 5
  Bars = {"download", "transfer", "loop"}
  Null = Null
  Leaf = Leaf
  Plain <- MCPlain
  Arguments <- MCArguments
  Answers <- MCAnswers
  Directories <- MCDirectories
  FilesBefore <- MCBefore
  CheckedTexts <- MCChecked
  Parts = {"cipher", "words", "lineheap", "cipherfile", "download", "progress", "wordtree", "names",
           "tools", "skipcopy", "dirsort", "spelling"}
INVARIANTS CipherInv WordsRight EncryptRight DownloadRight FilesRight
CHECK_DEADLOCK FALSE
