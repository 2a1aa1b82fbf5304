SPECIFICATION Spec
CONSTANTS
    post = post
    comment = comment
    mirror = mirror
    NoPointer = NoPointer
    Publications = {post, comment, mirror}
    Pointer <- MCPointer
    DefectCases <- MCDefects
    Checkers = {c1}
    MaxReorgs = 1
INVARIANTS
    TypeOK
    AcceptedIsSound
    RejectionIsFounded
    FirstErrorIsReturned
PROPERTY
    EveryStepIsProgress
