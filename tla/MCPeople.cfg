CONSTANTS
  admin = admin
  staff = staff
  Users = {a1, a2, u1}
  Founders = {a1, a2}
  Roles = {admin, staff}
  AdminRole = admin
  Policy <- TwoPolicies
  Groups = {g1}
  Grants <- GroupRolesMade
  Invitations = {i1, i2, i3}
  Requests = {r1, r2}
  Mixes <- Pairs
  Unset = Unset
  Nobody = Nobody
SYMMETRY Symmetry
SPECIFICATION Spec
CHECK_DEADLOCK FALSE
INVARIANTS
  TypeOK
  RolesAreWorkedOut
  LinksAreReplacedNotLost
PROPERTIES
  TakenAwayNotTheLast
