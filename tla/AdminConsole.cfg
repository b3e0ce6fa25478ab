\* Two sessions, one credential that the admin issues, two requests in flight,
\* in order or not; the network fails and the session ends once, and somebody
\* else revokes.
SPECIFICATION Spec

CONSTANTS
    c1 = c1
    Creds = {c1}
    Existing = {}
    None = None
    FilterSets = {{c1}, {}}
    Troubles = {"network", "expired", "elsewhere"}
    Modes = {"calm", "overtaking", "impatient"}
    MaxSessions = 2
    MaxFlight = 2

\* The bounds on sessions and troubles may leave the admin with nothing to do.
CHECK_DEADLOCK FALSE

INVARIANT ConsoleInv

PROPERTIES
    RevokesWhatIsShown
    ConsoleSettles
