\* A list of two links, filtered to either or to nothing, and two requests.
CONSTANTS
    Links = {x, y}
    Matches = {{x, y}, {x}, {y}, {}}
    MaxSent = 2

SPECIFICATION Spec
INVARIANTS RequestsNameLinks
PROPERTIES NeverDeletesHidden
