CONSTANTS
  Conns = {c1}
  Data = {"hello"}
  Exit = "exit"
  Part = "part"
  Consumer = consumer
  Free = free
  MaxSends = 2
  Faults = {}
SPECIFICATION FairSpec
INVARIANTS ExitObeyed
