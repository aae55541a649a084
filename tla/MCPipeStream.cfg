SPECIFICATION PipeSpec
CONSTANTS
    Procs = {a, b}
    Data = {x, y}
    PIPE_SIZE = 3
    Sizes = {0, 1, 3}
SYMMETRY MCSymmetry
VIEW MCView
PROPERTY
    IsByteStream
