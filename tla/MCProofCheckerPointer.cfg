SPECIFICATION Spec
CONSTANTS
    post = post
    comment = comment
    mirror = mirror
    NoPointer = NoPointer
    Publications = {post, comment, mirror}
    Pointer <- MCPointer
    DefectCases <- MCFewDefects
    Checkers = {c1}
    MaxReorgs = 0
INVARIANT
    RejectedPointerStaysRejected
