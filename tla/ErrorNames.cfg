\* The dialog is opened again while a request is in flight.
CONSTANTS
    Links = {x, y}
    Matches = {{x, y}, {x}, {y}, {}}
    MaxSent = 2

SPECIFICATION Spec
INVARIANTS ErrorNamesWhatFailed
