SPECIFICATION Spec
CONSTANTS
    a1 = a1
    a2 = a2
    b1 = b1
    b2 = b2
    c1 = c1
    d1 = d1
    e1 = e1
    f = f
    g = g
    h = h
    Empty = Empty
    Name <- MCName
    File <- MCFile
    Diff <- MCDiff
    NameOf <- MCNameOf
    FilesOf <- MCFilesOf
    NoEffect = {e1}
    Lists <- FreeLists
    Radix = 10
    Limit = 10
    MaxNum = 6
    MaxTears = 1
PROPERTIES
    SkippedIsInTree
