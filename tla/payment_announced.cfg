SPECIFICATION PaymentsSpec
CONSTANTS
  r1 = r1 r2 = r2 r3 = r3 r4 = r4
  Requests = {r1, r2, r3, r4}
  MockCheckout = mockCheckout
  NoCheckout = noCheckout
  Amounts = {0, 1}
  Metadata = {"receipt", "none", "unreadable"}
  Modes = {FALSE}
  MaxRestarts = 1
SYMMETRY RequestSymmetry
INVARIANTS CompletionIsAnnounced
