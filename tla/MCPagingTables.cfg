SPECIFICATION Spec
CONSTANTS
    Procs = {a}
    Kernel = kernel
    Root = 0
    Tables = {1, 3}
    UserPages = {2, 4, 5}
    KernelPages = {2}
    TableOf <- MCTableOf
    usable_page_count = 9
    Reserved = {0, 2}
    zero_page = 0
    vvar_paddr = 2
    Values = {zero, one}
    Zero = zero
    Unmapped = unmapped
    Vvar = vvar
SYMMETRY MCSymmetry
VIEW MCTablesView
INVARIANTS
    NoFreeFrameBelowHint
    TablesHoldPages
