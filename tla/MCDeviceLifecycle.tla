------------------------- MODULE MCDeviceLifecycle -------------------------
\* Two switches and two jobs at a time; switches and slots are interchangeable.
EXTENDS DeviceLifecycle, TLC

\* Bound: at most one of the switches has two discoveries, or two first steps, at once.
OneDisturbed == Cardinality(twice \cup overlap) <= 1

Symmetry == Permutations(Devices) \cup Permutations(Slots)
=============================================================================
