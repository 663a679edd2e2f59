CONSTANTS
  Conns = {c1, c2}
  Data = {"hello"}
  Exit = "exit"
  Part = "part"
  Consumer = consumer
  Free = free
  MaxSends = 1
  Faults = {"memory", "syscall", "wakeup"}
SPECIFICATION Spec
SYMMETRY Symmetry
INVARIANTS ConsumerAccessSafe PrintedBufferLive ExitWakesConsumer ServerInv
