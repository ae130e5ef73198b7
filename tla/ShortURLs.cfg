SPECIFICATION Spec
CONSTANTS
    URLs = {"sd", "hd", "4k"}
    Hash <- MCHash
    Digits = 3
    Shortest = 1
    Requests = {r1}
    MaxStarts = 2
INVARIANTS
    TypeOK
    OneCodePerURL
    CodesStayValid
    RemapExplained
