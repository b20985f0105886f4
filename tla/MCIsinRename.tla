---------------------------- MODULE MCIsinRename -----------------------------
EXTENDS IsinRename, TLC

(* A security, two holders, and the demerger it came out of.                *)
MCRowsOf == [t \in {"Security_List", "Holdings", "Demerger"} |->
    CASE t = "Security_List" -> {1} [] t = "Holdings" -> {2, 3} [] OTHER -> {4}]

MCFirst == (<<1, "ISIN">> :> "A") @@ (<<1, "Security_Code">> :> "code")
        @@ (<<2, "ISIN">> :> "A") @@ (<<3, "ISIN">> :> "A")
        @@ (<<4, "Old_ISIN">> :> "Y") @@ (<<4, "New_ISIN">> :> "A") @@ (<<4, "New_Security_Code">> :> "code")

MCHolder == (2 :> "acct1") @@ (3 :> "acct2")

Target(table, cols) == [table |-> table, cols |-> cols]
MCIsinTargets == <<Target("Security_List", <<"ISIN">>), Target("Holdings", <<"ISIN">>),
                   Target("Demerger", <<"Old_ISIN", "New_ISIN">>)>>

Apply(table, isinCol, col) == [table |-> table, isinCol |-> isinCol, col |-> col]
MCApplyTargets == <<Apply("Security_List", "ISIN", "Security_Code"),
                    Apply("Demerger", "New_ISIN", "New_Security_Code")>>

Rename(old, new) == [kind |-> "rename", old |-> old, new |-> new]
Sync(isin) == [kind |-> "apply", isin |-> isin, val |-> "new"]
MCRequests == {<<Rename("A", "B"), Rename("B", "C")>>, <<Rename("A", "B"), Rename("A", "C")>>,
               <<Rename("A", "B"), Sync("B")>>, <<Sync("A"), Rename("A", "B")>>}
=============================================================================
