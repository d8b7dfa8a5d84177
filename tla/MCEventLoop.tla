----------------------------- MODULE MCEventLoop -----------------------------
\* Clients and descriptors as model values for TLC.
EXTENDS EventLoop, TLC

CONSTANTS c1, c2, c3, f1, f2

TwoClients == {c1, c2}
ThreeClients == {c1, c2, c3}
TwoFDs == {f1, f2}

\* The clients are interchangeable, and so are the descriptors (safety only).
Symmetry == Permutations(Clients) \cup Permutations(FDs)
=============================================================================
