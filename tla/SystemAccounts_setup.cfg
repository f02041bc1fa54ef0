SPECIFICATION Spec
CONSTANTS
    Emails = {e1, e2}
    Passwords = {p1, p2}
    Requests = {r1, r2, r3}
    None = None
    MaxCommands = 1

INVARIANT
    OneInitialUser
