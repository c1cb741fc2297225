SPECIFICATION Spec
CONSTANTS
    Categories = {c1, c2, c3}
    Categories0 = {c1, c2}
    Products = {p1}
    Attributes = {a1, a2, a3}
    Codes = {color, own}
    Defaults = {color}
    Workers = {w1, w2}
    MaxStock = 1
SYMMETRY Symmetry
INVARIANTS TypeOK NoCycle HiddenStaysHidden DefaultsStay
