CONSTANT Ids = {i1, i2, i3, i4}
SPECIFICATION Spec
INVARIANT DiffIsSetDifference

