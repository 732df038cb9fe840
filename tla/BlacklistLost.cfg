SPECIFICATION Spec
CONSTANTS
    ls = ls
    pwd = pwd
    make = make
    Key = {ls, pwd, make}
    HashMapSize = 2
    Hash <- MCHash
    Default <- MCDefault
    MaxRetries = 10
    MaxLines = 3
INVARIANTS OptionKeepsFile
