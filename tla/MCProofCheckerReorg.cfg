SPECIFICATION Spec
CONSTANTS
    post = post
    comment = comment
    mirror = mirror
    NoPointer = NoPointer
    Publications = {post, comment}
    Pointer <- MCPointer
    DefectCases <- MCFewDefects
    Checkers = {c1}
    MaxReorgs = 1
INVARIANT
    ReorgIsReported
