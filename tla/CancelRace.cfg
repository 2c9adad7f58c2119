SPECIFICATION Spec
CONSTANTS
  shirt = shirt  shoe = shoe  rice = rice
  d1 = d1 d2 = d2 d3 = d3 a1 = a1 c1 = c1 c2 = c2 p1 = p1 p2 = p2 p3 = p3 x1 = x1 x2 = x2 v1 = v1 v2 = v2
  Nobody = Nobody  NoRow = NoRow  NotLoaded = NotLoaded
  Requests = {d1, p1, x1}
  Fragile = {}
  Products = {shirt}
  Sized = {}
  Dishes = {}
  Role <- Roles_
  Baskets <- OneUnit
  Opening <- LastOne
  Commissioned = {p1}
  MaxOpen = 2
PROPERTIES PaidIsFinal
