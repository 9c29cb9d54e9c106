CONSTANTS
  job1 = job1
  prog1 = prog1
  sched1 = sched1
  x = x
  u = u
  v = v
  Null = Null
  Names = {job1, prog1, sched1}
  Sessions = {s1, s2}
  MaxArgs = 2
  ArgNames = {x}
  Values = {u, v}
  Workloads <- AllWorkloads
SPECIFICATION Spec
INVARIANTS OneNamespace EnabledResolves ArgumentsInRange RunAsDefined
SYMMETRY Symmetry
