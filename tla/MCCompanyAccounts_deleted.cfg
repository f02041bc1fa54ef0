INIT Init
NEXT Next
CONSTANTS
    u1 = u1  u2 = u2  e1 = e1  e2 = e2  p1 = p1  p2 = p2  None = None
    Users = {u1}
    Emails = {e1}
    Passwords = {p1, p2}
    Roles = {"editor"}
    Rates = {1, 2}
    Requests = {r1, r2}
    Life = 1
    MaxEdits = 3
    Founded <- OneFounder
    Asks <- StatusAsks
PROPERTIES DeletedStayInactive
