------------------------- MODULE MessageIdentities -------------------------
(***************************************************************************)
(* What a TFRobot gateway remembers of the user messages of a conversation *)
(* (chat-gateway-tfrobot/src/message-identity.ts), so that deliveries of   *)
(* one message get one display id: a live delivery before the server wrote *)
(* it to its database, one after, a page of history.  A message with a     *)
(* server identity is known by it; without one, a delivery without a       *)
(* database id is matched with one that has it by everything else it says  *)
(* (its signature), if that is not ambiguous.                              *)
(*                                                                         *)
(* A delivery d has: message, which one it is; server and db, its server   *)
(* identity and database id, or Absent; name, what it says of the author;  *)
(* look and time, the signature and the creation time.  Left out: other    *)
(* roles than the user's, the fields the server adds to a message when it  *)
(* is written (enrichment), and the hints that an item is to be reviewed.  *)
(* The profile is current-server, which alone matches by signature.        *)
(***************************************************************************)
EXTENDS Integers, Sequences, FiniteSets, SequencesExt, Timeline

CONSTANT MaxRecent      \* MAX_RECENT_SIGNATURES

\* Nobody has confirmed an author: confirmedHistory is undefined.
Unconfirmed == [name |-> 0, rev |-> 0]

\* ConversationIdentities.  life tells the gateways of a page apart, whose
\* display ids for provisional messages differ (#provisionalNamespace).
NewIdentities(life) ==
    [aliases |-> NoKeys, servers |-> NoKeys, recent |-> <<>>, ids |-> {}, spare |-> 0,
     life |-> life]

Known(f, k) == k \in DOMAIN f

\* A display id nobody has yet, and how often one had to be made up.
FreeId(g, base) == IF Append(base, 0) \in g.ids THEN Append(base, g.spare + 1) ELSE Append(base, 0)

SpareAfter(g, base) == IF Append(base, 0) \in g.ids THEN g.spare + 1 ELSE g.spare

\* A message as it is delivered, before it is identified.
Delivered(d, source, rev) ==
    [id |-> <<>>, server |-> d.server, db |-> d.db, src |-> source,
     time |-> d.time, author |-> [name |-> d.name, rev |-> IF source = "history" THEN rev ELSE 0],
     of |-> {d.message}, sure |-> IF d.server = Absent /\ d.db = Absent THEN {} ELSE {d.message},
     clash |-> FALSE]

\* Faulty: whatever read is answered last confirms the author.
ConfirmingLast(confirmed, d, source, rev) ==
    IF source = "history" THEN [name |-> d.name, rev |-> rev] ELSE confirmed

\* A history read confirms the author unless a newer one did.
Confirming(confirmed, d, source, rev) ==
    IF source = "history" /\ rev >= confirmed.rev THEN [name |-> d.name, rev |-> rev]
    ELSE confirmed

WithAuthor(i, confirmed) == IF confirmed.rev = 0 THEN i ELSE [i EXCEPT !.author = confirmed]

Mapped(g, i) == [gateway |-> g, item |-> i]

\* #mapServerMessage, once it found what it knows of the server's identity s
\* (known) and of the row of the database (row); alias is what it now knows.
KnownAs(f, k) == IF k # Absent /\ Known(f, k) THEN <<f[k]>> ELSE <<>>

Newer(a, b) == IF a.rev > b.rev THEN a ELSE b

ConfirmedOf(s) == IF s = <<>> THEN Unconfirmed ELSE s[1].confirmed

ServerAlias(g, known, row, d, s, source, rev) ==
    [id |-> IF known # <<>> THEN known[1].id
            ELSE IF row # <<>> THEN row[1].id ELSE FreeId(g, <<"server", s>>),
     server |-> s,
     db |-> IF d.db # Absent \/ known = <<>> THEN d.db ELSE known[1].db,
     confirmed |-> Confirming(Newer(ConfirmedOf(row), ConfirmedOf(known)), d, source, rev)]

WithAlias(g, alias, conflict, d, source, rev) ==
    Mapped([g EXCEPT !.servers = (alias.server :> alias) @@ @,
                     !.aliases = IF alias.db = Absent THEN @ ELSE (alias.db :> alias) @@ @,
                     !.ids = @ \cup {alias.id}],
           WithAuthor([Delivered(d, source, rev) EXCEPT
                          !.id = alias.id, !.server = alias.server, !.db = alias.db,
                          !.clash = conflict], alias.confirmed))

ServerMappedAs(g, known, row, d, s, source, rev) ==
    WithAlias([g EXCEPT !.spare = IF known = <<>> /\ row = <<>>
                                  THEN SpareAfter(g, <<"server", s>>) ELSE @],
              ServerAlias(g, known, row, d, s, source, rev),
              \/ known # <<>> /\ d.db # Absent /\ known[1].db \notin {Absent, d.db}
              \/ row # <<>> /\ row[1].server \notin {Absent, s},
              d, source, rev)

\* #mapServerMessage.
ServerMapped(g, d, s, source, rev) ==
    ServerMappedAs(g, KnownAs(g.servers, s), KnownAs(g.aliases, d.db), d, s, source, rev)

\* #confirmedMessage: i is known to be row db of the database, if that is
\* not Absent.
ConfirmedMapped(g, i, db, d, source, rev) ==
    IF db = Absent THEN Mapped(g, i)
    ELSE LET confirmed == Confirming(g.aliases[db].confirmed, d, source, rev)
         IN  Mapped([g EXCEPT !.aliases[db].confirmed = confirmed],
                    IF confirmed.rev = 0 THEN i
                    ELSE [WithAuthor(i, confirmed) EXCEPT !.db = db, !.src = source])

\* What was delivered before, and says the same, as d may be a delivery of:
\* a provisional delivery repeats one, or one that was persisted; a persisted
\* one follows a provisional one that was not ambiguous.
Looking(g, d, Ok(_)) == SelectSeq(g.recent, LAMBDA r: r.look = d.look /\ Ok(r))

\* Faulty: a persisted delivery is also taken for one with another row.
CandidatesOfAnyRow(g, d) ==
    IF d.db = Absent THEN Looking(g, d, LAMBDA r: r.db # Absent)
    ELSE Looking(g, d, LAMBDA r: ~r.ambiguous)

Candidates(g, d) ==
    IF d.db = Absent THEN Looking(g, d, LAMBDA r: r.db # Absent)
    ELSE Looking(g, d, LAMBDA r: r.db = Absent /\ ~r.ambiguous)

Identified(g, d) ==
    LET repeated == IF d.db = Absent THEN Looking(g, d, LAMBDA r: r.db = Absent) ELSE <<>>
    IN  IF repeated # <<>> THEN <<repeated[1]>>
        ELSE IF Len(Candidates(g, d)) = 1 THEN Candidates(g, d) ELSE <<>>

\* The newest signatures, of which r is one.
Remembered(recent, r) ==
    LET s == Append(SelectSeq(recent, LAMBDA x: x.id # r.id), r)
    IN  IF Len(s) > MaxRecent THEN Tail(s) ELSE s

\* map, for a message the gateway has no identity for.
NewIdentity(g, d, base) ==
    [id |-> FreeId(g, base), look |-> d.look, db |-> d.db,
     ambiguous |-> d.db = Absent /\ Len(Candidates(g, d)) > 1]

WithIdentity(g, identity, d, source, rev) ==
    ConfirmedMapped(
        [g EXCEPT !.recent = Remembered(@, identity), !.ids = @ \cup {identity.id},
                  !.aliases = IF d.db = Absent THEN @
                              ELSE (d.db :> [id |-> identity.id, server |-> Absent, db |-> d.db,
                                             confirmed |-> Unconfirmed]) @@ @],
        [Delivered(d, source, rev) EXCEPT !.id = identity.id], identity.db, d, source, rev)

IdentifiedMapped(g, found, base, d, source, rev) ==
    IF found = <<>>
    THEN WithIdentity([g EXCEPT !.spare = SpareAfter(g, base)], NewIdentity(g, d, base),
                      d, source, rev)
    ELSE WithIdentity(g, [found[1] EXCEPT !.db = IF d.db = Absent THEN @ ELSE d.db],
                      d, source, rev)

SignatureMapped(g, d, source, rev) ==
    IdentifiedMapped(g, Identified(g, d),
                     IF d.db = Absent THEN <<"time", d.time, g.life>> ELSE <<"db", d.db>>,
                     d, source, rev)

\* map.  A row of the database that is known to have a server identity has it
\* also when the delivery does not say so.
MapMessage(g, d, source, rev) ==
    LET inDatabase == d.db # Absent /\ Known(g.aliases, d.db)
        server == IF d.server = Absent /\ inDatabase THEN g.aliases[d.db].server ELSE d.server
    IN  IF server # Absent THEN ServerMapped(g, d, server, source, rev)
        ELSE IF inDatabase
        THEN ConfirmedMapped(g, [Delivered(d, source, rev) EXCEPT !.id = g.aliases[d.db].id],
                             d.db, d, source, rev)
        ELSE SignatureMapped(g, d, source, rev)

=============================================================================
