------------------------------ MODULE Messages ------------------------------
(***************************************************************************)
(* The messages a client sends, as the runtime reads them.  It is not part *)
(* of the repository: modelled from what the client passes and what the    *)
(* handlers rely on.                                                       *)
(*                                                                         *)
(* An account list names the accounts of an instruction that sign, those   *)
(* it may write and those it only reads.  The account that pays for the    *)
(* transaction signs and is writable whatever the list says of it, and a   *)
(* key listed twice has the union of its flags.                            *)
(***************************************************************************)
EXTENDS Sequences

\* An account passed after those the instruction declares.
Meta(key, isSigner, isWritable) ==
    [key |-> key, isSigner |-> isSigner, isWritable |-> isWritable]

Message(payer, list, remaining) ==
    LET extra == {remaining[i] : i \in DOMAIN remaining}
    IN  [ signer |-> {payer} \cup list.signer \cup {r.key : r \in {x \in extra : x.isSigner}},
          mut |-> {payer} \cup list.mut \cup {r.key : r \in {x \in extra : x.isWritable}},
          key |-> {payer} \cup list.signer \cup list.mut \cup list.readonly
                    \cup {r.key : r \in extra} ]

\* What a handler needs of the message to make its calls.
Needs(signer, mut, key) == [signer |-> signer, mut |-> mut, key |-> key]
Together(needs) ==
    [ signer |-> UNION {n.signer : n \in needs},
      mut |-> UNION {n.mut : n \in needs},
      key |-> UNION {n.key : n \in needs} ]

\* A message is executed when everybody it names as a signer has signed, and
\* its calls succeed only on accounts it gives the privileges for.
Accepted(message, signatures, needs) ==
    /\ message.signer \subseteq signatures
    /\ needs.signer \subseteq message.signer
    /\ needs.mut \subseteq message.mut
    /\ needs.key \subseteq message.key
=============================================================================
