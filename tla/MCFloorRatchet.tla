--------------------------- MODULE MCFloorRatchet ---------------------------
EXTENDS FloorRatchet, TLC

CONSTANTS orders, users, row, edit, save, icon, kEdit, kRow, kIcon

\* A control in a table row that shares its name with two controls outside the
\* table, and a counted control on another screen.
ScreenOfDef == (kEdit :> orders) @@ (kRow :> orders) @@ (kIcon :> users)
LegacyKeyDef == (row :> kEdit) @@ (edit :> kEdit) @@ (save :> kEdit)
                    @@ (icon :> kIcon)
RowKeyDef == (row :> kRow) @@ (edit :> kEdit) @@ (save :> kEdit)
                    @@ (icon :> kIcon)
ConfidenceDef == (row :> "fail") @@ (edit :> "fail") @@ (save :> "unverified")
                    @@ (icon :> "unverified")

\* Still pages, and a page without the row where one control comes and goes.
WorldsDef ==
    {[spots |-> Spots, flicker |-> {}, versions |-> {1, 2, 3}],
     [spots |-> {edit, save, icon}, flicker |-> {save}, versions |-> {3}]}
=============================================================================
