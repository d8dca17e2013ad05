SPECIFICATION Spec
CONSTANTS
  Worker = {w1, w2}
  Token = {t1, t2, t3}
  NoToken = NoToken
  Lifetimes = {1, 2}
  Cooldown = 2
  MaxTime = 3
SYMMETRY Symmetry
INVARIANTS TypeOK ShownLinkOpens
PROPERTIES LinkNeverRevives CooldownKept
