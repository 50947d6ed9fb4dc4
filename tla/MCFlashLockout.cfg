CONSTANTS
  ota = ota
  usb = usb
  NoOne = NoOne
  Writers <- MCWriters
  Arbitrated <- MCArbitrated
  Preemptive = FALSE
  SlowPoll = FALSE
SPECIFICATION Spec
INVARIANTS ParkedWhileWriting
PROPERTIES Core1Resumes WriteEnds
