SPECIFICATION PipeSpec
CONSTANTS
    Procs = {a}
    Data = {x}
    PIPE_SIZE = 3
    Sizes = {1, 3}
PROPERTY
    BlockingWriteWaits
