CONSTANTS
  Conns = {c1, c2}
  Data = {"hello"}
  Exit = "exit"
  Part = "part"
  Consumer = consumer
  Free = free
  MaxSends = 1
  Faults = {}
SPECIFICATION FairSpec
PROPERTIES ExitTerminates AcceptedDelivered MailboxSpec
