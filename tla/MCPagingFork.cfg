SPECIFICATION Spec
CONSTANTS
    Procs = {a, b}
    Kernel = kernel
    Root = 0
    Tables = {1}
    UserPages = {2}
    KernelPages = {}
    TableOf <- MCTableOf
    usable_page_count = 9
    Reserved = {0, 2}
    zero_page = 0
    vvar_paddr = 2
    Values = {zero, one}
    Zero = zero
    Unmapped = unmapped
    Vvar = vvar
SYMMETRY MCSymmetry
VIEW MCView
INVARIANTS
    RefcountExact
    WritableIsExclusive
    TlbCoherent
    ZeroPageIsZero
PROPERTY
    PrivateMemory
