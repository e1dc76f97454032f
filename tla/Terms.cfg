SPECIFICATION Spec
CONSTANTS
  Name = {1, 2}
  Hz = {"minus_zero", "thirty", "thirty_and_a_bit", "giga", "infinity", "nan"}
  Bias = {"minus_one", "minus_zero", "zero", "one", "thirty", "nan"}
  Topic = {"", "t", "u"}
INVARIANTS RelationsAreOrdered SameTermsAskTheSame
