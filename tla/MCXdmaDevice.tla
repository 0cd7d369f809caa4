----------------------------- MODULE MCXdmaDevice -----------------------------
(* Instances of XdmaDevice for TLC.                                          *)
EXTENDS XdmaDevice, TLC

CONSTANTS d1, d2

Bar(n, k) == [bar |-> n, kind |-> k]

\* All three BARs, 64 bits wide, and MSI-X; a user and a config BAR, and no
\* interrupt pin; no config BAR.  The second device has a config BAR and the
\* legacy interrupt only.
MCLayouts ==
    (d1 :> {[bars |-> <<Bar(0, "user"), Bar(2, "config"), Bar(4, "bypass")>>,
             h2c |-> 0, c2h |-> 1, streaming |-> TRUE, cap |-> "msix"],
            [bars |-> <<Bar(0, "user"), Bar(1, "config")>>,
             h2c |-> 1, c2h |-> 1, streaming |-> FALSE, cap |-> "nopin"],
            [bars |-> <<Bar(0, "other")>>,
             h2c |-> 0, c2h |-> 0, streaming |-> FALSE, cap |-> "msi"]})
    @@ (d2 :> {[bars |-> <<Bar(0, "config")>>, h2c |-> 0, c2h |-> 0,
                streaming |-> FALSE, cap |-> "legacy"]})

\* The kernel's major numbers are interchangeable.
MajorSymmetry == Permutations(Majors)
=============================================================================
