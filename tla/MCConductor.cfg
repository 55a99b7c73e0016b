\* One app, two libraries, three instances, one interface, one UI bundle;
\* four admin functions, with restarts of the process between them.
SPECIFICATION Spec
CONSTANTS
  app = app
  lib = lib
  ext = ext
  a = a
  c = c
  e = e
  g = g
  k = k
  h = h
  i = i
  u = u
  v = v
  Dnas = {app, lib, ext}
  Agents = {g, k}
  Instances = {a, c, e}
  Interfaces = {i}
  Handles = {h}
  Bundles = {u}
  UiInterfaces = {v}
  Defines <- MCDefines
  Requires <- MCRequires
  Accepts <- MCAccepts
  BootConfig <- MCBootConfig
  MaxObjects = 5
  MaxOps = 4
INVARIANTS
  TypeOK
  
  InterfacesServeConfig
  SignalsReachInterfaces
  BridgesResolve
PROPERTIES
  RetiredIsStopped
CHECK_DEADLOCK FALSE
