SPECIFICATION Spec
CONSTANTS
  m1 = m1 m2 = m2 m3 = m3 u1 = u1 w1 = w1 ada = ada copy = copy
  Nobody = Nobody
  Requests = {m1, m2, m3, u1, w1}
  Role <- Role_
  User <- User_
  Managers = {u1}
  EchoId <- EchoId_
  KnownAtStart = FALSE
  ResumeAfter = 2
  AlertInterval = 1
  ReplyWindow = 2
  FirstFollowUp = 1
  SecondFollowUp = 1
  Horizon = 2
  MaxOpen = 1
  Fragile = {u1}
INVARIANTS ConvTypeOK OneConversation EchoOnce AlertsRight AtMostTwoFollowUps
PROPERTIES BobComesBackOnlyWhenLet
SYMMETRY Alike
