SPECIFICATION Spec
CONSTANTS
  s1 = s1
  s2 = s2
  n1 = n1
  a1 = a1
  Node = {n1}
  NodeOf <- SameNode
  Ad = {a1}
  AdOf <- SameAd
  Svc = {s1, s2}
  Endpoints = 1
  Events <- NoIP
  AtFirst <- AllWell
  MayChange = {}
  Confs <- Silent
  MaxChanges = 1
  MaxFaults = 0
PROPERTY ReadyMeansPassed
