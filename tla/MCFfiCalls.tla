----------------------------- MODULE MCFfiCalls -----------------------------
EXTENDS FfiCalls, TLC

CONSTANTS s1, n1, n2, gone

NoHeader == [f \in Fns |-> None]
Header == [NoHeader EXCEPT ![0] = s1]
Image(name, version, header, binds) ==
    [name |-> name, version |-> version, header |-> header, binds |-> binds]

\* Loaded: two versions of a module whose function 0 has a header, the first bound to a
\* native that is missing, and a module without headers that binds the symbol as the
\* second version does.  Owned: a module without bindings, and a later version of the
\* module without headers, bound to the missing native.
M11 == Image(1, 1, Header, s1 :> gone)
M12 == Image(1, 2, Header, s1 :> n2)
M21 == Image(2, 1, NoHeader, s1 :> n2)
MCLoaded == {M11, M12, M21}
MCOwned == { Image(3, 1, NoHeader, [s \in {} |-> None]), Image(2, 2, NoHeader, s1 :> gone) }

\* A bundle that is accepted, and one with a conflict behind its first module.
Bundle(images) ==
    [kind |-> "tlbs",
     modules |-> [k \in DOMAIN images |-> [image |-> images[k], flaw |-> FALSE]]]
MCFiles == { Bundle(<<M21, M12>>), Bundle(<<M21, M11>>) }

\* Two modules whose function 0 has a header, both loaded.
MCHeaders == { Image(1, 1, Header, s1 :> n1), Image(2, 1, Header, s1 :> n2) }
=============================================================================
