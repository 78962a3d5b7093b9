------------------------------ MODULE MCBinding ------------------------------
EXTENDS Binding

CONSTANTS d1, d2, g, self, s1, s2

Bound(o, s, d) == [owner |-> o, source |-> s, dst |-> d]

\* A cluster bound to a device and, by a binding that names another owner, to a
\* group; a second cluster bound to the node itself.
MCBindings == {Bound(self, s1, d1), Bound(d2, s1, g), Bound(self, s2, self)}
=============================================================================
