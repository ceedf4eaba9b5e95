SPECIFICATION Spec
CONSTANTS
    a = a
    b = b
    Chars = {a, b}
    Nul = Nul
    Texts <- MCTexts
    Olds <- MCOlds
    News <- MCNews
    Sizes = {1, 3, 6, 8}
INVARIANTS Replaces StaysInBuffer
PROPERTY Returns
