CONSTANTS
    Users = {"rpki", "other"}
    Passwords = {"", "pw1", "pw2"}
    Keys = {"k1", "k2"}
    Words = {"cm"}
    NL = NL
    MaxKeyText = 3
SPECIFICATION Spec
INVARIANT AuthMatchesContract
