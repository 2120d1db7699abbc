----------------------------- MODULE MCAccounts -----------------------------
(***************************************************************************)
(* Instances of Accounts for TLC.                                          *)
(***************************************************************************)
EXTENDS AccountsProps, TLC

(* Nothing tells users, devices, workers, tokens or keys apart.  *)
AccountsSymmetry ==
  Permutations(Users) \cup Permutations(Devices) \cup Permutations(Workers)
    \cup Permutations(Tokens) \cup Permutations(RowIds)

(* Two users meet at the devices only, with a session each; time and its     *)
(* setting change while no device is registered and no administrator edits,  *)
(* logs out or deletes a user.  Nothing in the code relates what is kept     *)
(* apart.                                                                    *)
Known == {u \in Users : users[u] # NoUser}
Busy(ops) == \E w \in Workers : txn[w].op \in ops
TokensOf(u) == {k \in Tokens : u \in {cookies[k], sessions[k].user}}

FirstHour ==
  /\ now = 0 /\ hours = 1
  /\ \A k \in Tokens : sessions[k].expires =< 1
  /\ \A w \in Workers : txn[w].expires =< 1

Focus ==
  \/ /\ FirstHour
     /\ Cardinality(Known) > 1 =>
          /\ ~ Busy({"edit", "kick", "mode b"})
          /\ \A u \in Users : Cardinality(TokensOf(u)) =< 1 /\ users[u].status # "disabled"
  \/ /\ Cardinality(Known) =< 1
     /\ \A u \in Users : users[u].status # "deleted"
     /\ \A r \in RowIds : registry[r] = NoRow
     /\ ~ Busy({"register", "update", "mode b", "edit", "kick", "delete"})
=============================================================================
