CONSTANTS
  e1 = e1  e2 = e2
  Events = {e1, e2}
  Files = {e1, e2}
  n1 = n1
  Notifiers = {n1}
  AlwaysNotifiers = {}
  FileOf <- OwnFile
  Concurrency = 2
  RetainFiles = FALSE
  AlwaysStore = FALSE
SPECIFICATION Spec
PROPERTY
  WaitCoversHandovers
