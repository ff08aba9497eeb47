SPECIFICATION Spec
CONSTANTS
    l1 = l1
    l2 = l2
    l3 = l3
    l4 = l4
    d1 = d1
    d2 = d2
    p1 = p1
    p2 = p2
    w1 = w1
    w2 = w2
    None = None
    Lines = {l1, l2, l3, l4}
    Prefix <- MixedPrefix
    Dataset <- Datasets
    Droppers = {w1, w2}
    Compactors = {c}
    Indexers = {r}
    Tails = {t}
    Inodes = {i1, i2, i3}
CONSTRAINT Explored
SYMMETRY Symmetry
INVARIANT TypeOK
INVARIANT TailFaithful
PROPERTY Implements
CHECK_DEADLOCK FALSE
