--------------------------- MODULE LspSyncProofs ---------------------------
(***************************************************************************)
(* What TLAPS proves of LspSync, for any documents, names, filetypes,      *)
(* servers and sizes.                                                      *)
(*                                                                         *)
(* A handler works on the tables M and hands them from one call to the     *)
(* next, so the invariant is stated of tables: Sound(M) is what every call *)
(* preserves from the tables alone, Honest(M) what the servers were told.  *)
(* There is a lemma per operator of LspSync, and one per action.           *)
(***************************************************************************)
EXTENDS LspSync, SequenceLemmas, FiniteSetTheorems

USE DocAssumption, FtAssumption, NameAssumption, FilesAssumption, NullAssumption,
    SizeAssumption

View == UNION {[U -> Known] : U \in SUBSET Uri}

ServerType ==
    [state : {"down", "starting", "running"}, open_docs : SUBSET Doc, mru_docs : Seq(Doc),
     view : View, confused : BOOLEAN]

Tables == [doc : [Doc -> DocType], server : [Ft -> ServerType]]

\* OpenBounded of one server.
Books(s) ==
    /\ Len(s.mru_docs) <= MRU_SIZE
    /\ ToSet(s.mru_docs) = s.open_docs
    /\ IsInjective(s.mru_docs)

Sound(M) ==
    /\ M \in Tables
    /\ \A d \in Doc : M.doc[d].open \/ M.doc[d] = Closed
    /\ \A f \in Ft : Books(M.server[f])

\* The server of f, which is the server of d, knows d as it is.
Knows(M, f, d) ==
    /\ M.doc[d].open
    /\ UriOf(M, d) \in DOMAIN M.server[f].view
    /\ M.server[f].view[UriOf(M, d)] = [text |-> M.doc[d].text, version |-> M.doc[d].version]
    /\ GotServer(M, d) = f

\* Nothing else is open at the server of f, under no other name.
KnowsOnly(M, f) ==
    \A u \in DOMAIN M.server[f].view :
        u[1] \in M.server[f].open_docs /\ u[2] = M.doc[u[1]].path

Honest(M) ==
    \A f \in Ft :
        /\ ~M.server[f].confused
        /\ \A d \in M.server[f].open_docs : Knows(M, f, d)
        /\ KnowsOnly(M, f)

\* d is open at no server.
Unopened(M, d) == \A f \in Ft : d \notin M.server[f].open_docs

-----------------------------------------------------------------------------
(* The tables *)

LEMMA PutServer ==
    ASSUME NEW M \in Tables, NEW f \in Ft, NEW s \in ServerType,
           NEW N, N = [M EXCEPT !.server[f] = s]
    PROVE  /\ N \in Tables
           /\ N.doc = M.doc
           /\ N.server[f] = s
           /\ \A g \in Ft \ {f} : N.server[g] = M.server[g]
BY DEF Tables

LEMMA PutDoc ==
    ASSUME NEW M \in Tables, NEW d \in Doc, NEW r \in DocType,
           NEW N, N = [M EXCEPT !.doc[d] = r]
    PROVE  /\ N \in Tables
           /\ N.server = M.server
           /\ N.doc[d] = r
           /\ \A e \in Doc \ {d} : N.doc[e] = M.doc[e]
BY DEF Tables

LEMMA TablesType ==
    ASSUME NEW M \in Tables
    PROVE  /\ \A d \in Doc : M.doc[d] \in DocType
           /\ \A f \in Ft : M.server[f] \in ServerType
BY DEF Tables

LEMMA FtImplType ==
    ASSUME NEW M \in Tables, NEW d \in Doc
    PROVE  FtImpl(M, d) \in Ft \cup {None}
BY DEF Tables, DocType, FtImpl

\* Which server serves a document depends on these.
LEMMA SameServer ==
    ASSUME NEW M, NEW N, NEW d,
           N.doc[d].path = M.doc[d].path, N.doc[d].cached_ft = M.doc[d].cached_ft,
           \A f \in Ft : Running(N, f) <=> Running(M, f)
    PROVE  GotServer(N, d) = GotServer(M, d)
BY DEF GotServer, Configured, Running

\* The table of the documents changes for d, which is open nowhere, or in nothing that
\* a server knows.
LEMMA DocChanged ==
    ASSUME NEW M, NEW N, NEW d \in Doc,
           Sound(M), N \in Tables, N.server = M.server,
           \A e \in Doc \ {d} : N.doc[e] = M.doc[e],
           N.doc[d].open \/ N.doc[d] = Closed,
           \/ Unopened(M, d)
           \/ /\ N.doc[d].open = M.doc[d].open
              /\ N.doc[d].path = M.doc[d].path
              /\ N.doc[d].text = M.doc[d].text
              /\ N.doc[d].version = M.doc[d].version
              /\ N.doc[d].cached_ft = M.doc[d].cached_ft
    PROVE  Sound(N) /\ (Honest(M) => Honest(N))
<1>1. Sound(N)
  BY DEF Sound
<1>2. ASSUME Honest(M), NEW f \in Ft PROVE
         /\ ~N.server[f].confused
         /\ \A e \in N.server[f].open_docs : Knows(N, f, e)
         /\ KnowsOnly(N, f)
  <2>0. N.server[f] \in ServerType
    BY <1>1, TablesType DEF Sound
  <2>1. ASSUME NEW e \in N.server[f].open_docs PROVE Knows(N, f, e)
    <3>1. e \in Doc /\ Knows(M, f, e) /\ e \in M.server[f].open_docs
      BY <1>2, <2>0 DEF Honest, ServerType
    <3>2. /\ N.doc[e].open = M.doc[e].open
          /\ N.doc[e].path = M.doc[e].path
          /\ N.doc[e].text = M.doc[e].text
          /\ N.doc[e].version = M.doc[e].version
          /\ N.doc[e].cached_ft = M.doc[e].cached_ft
      BY <3>1 DEF Unopened
    <3>3. GotServer(N, e) = GotServer(M, e)
      BY <3>2, SameServer DEF Running
    <3> QED
      BY <3>1, <3>2, <3>3 DEF Knows, UriOf
  <2>2. ASSUME NEW u \in DOMAIN N.server[f].view
        PROVE  u[1] \in N.server[f].open_docs /\ u[2] = N.doc[u[1]].path
    <3>1. u[1] \in M.server[f].open_docs /\ u[2] = M.doc[u[1]].path
      BY <1>2 DEF Honest, KnowsOnly
    <3>2. u[1] \in Doc
      BY <3>1, <2>0 DEF ServerType
    <3> QED
      BY <3>1, <3>2 DEF Unopened
  <2> QED
    BY <1>2, <2>1, <2>2 DEF Honest, KnowsOnly
<1> QED
  BY <1>1, <1>2 DEF Honest

-----------------------------------------------------------------------------
(* The server of a document *)

LEMMA GetFtKept ==
    ASSUME NEW M, NEW d \in Doc, Sound(M), M.doc[d].open
    PROVE  LET G == GetFt(M, d) IN
           /\ Sound(G)
           /\ Honest(M) => Honest(G)
           /\ G.server = M.server
           /\ G.doc[d] = [M.doc[d] EXCEPT !.cached_ft = IF @ # NULL THEN @ ELSE FtImpl(M, d)]
           /\ \A e \in Doc \ {d} : G.doc[e] = M.doc[e]
<1> DEFINE G == GetFt(M, d)
<1>0. M \in Tables /\ M.doc[d] \in DocType /\ FtImpl(M, d) \in Ft \cup {None}
  BY TablesType, FtImplType DEF Sound
<1>1. CASE M.doc[d].cached_ft # NULL
  <2>1. G = M
    BY <1>1 DEF GetFt
  <2>2. M.doc[d] = [M.doc[d] EXCEPT !.cached_ft = IF @ # NULL THEN @ ELSE FtImpl(M, d)]
    BY <1>0, <1>1 DEF DocType
  <2> QED
    BY <1>0, <2>1, <2>2
<1>2. CASE M.doc[d].cached_ft = NULL
  <2> DEFINE r == [M.doc[d] EXCEPT !.cached_ft = FtImpl(M, d)]
  <2>1. r \in DocType
    BY <1>0 DEF DocType
  <2>2. G = [M EXCEPT !.doc[d] = r]
    BY <1>0, <1>2 DEF GetFt, Tables
  <2>3. r = [M.doc[d] EXCEPT !.cached_ft = IF @ # NULL THEN @ ELSE FtImpl(M, d)]
    BY <1>0, <1>2 DEF DocType
  <2>4. /\ r.open = M.doc[d].open /\ r.path = M.doc[d].path
    BY <1>0 DEF DocType
  <2> HIDE DEF r, G
  <2>5. /\ G \in Tables
        /\ G.server = M.server
        /\ G.doc[d] = r
        /\ \A e \in Doc \ {d} : G.doc[e] = M.doc[e]
    BY <1>0, <2>1, <2>2, PutDoc
  <2>6. Honest(M) => Unopened(M, d)
    <3> SUFFICES ASSUME Honest(M), NEW f \in Ft, d \in M.server[f].open_docs PROVE FALSE
      BY DEF Unopened
    <3>1. GotServer(M, d) = f
      BY DEF Honest, Knows
    <3> QED
      BY <3>1, <1>2 DEF GotServer, Configured
  <2>7. Sound(G)
    BY <2>4, <2>5 DEF Sound
  <2>8. Honest(M) => Honest(G)
    BY <2>4, <2>5, <2>6, DocChanged
  <2> QED
    BY <2>3, <2>5, <2>7, <2>8 DEF G
<1> QED
  BY <1>1, <1>2

\* Every server has the books it had, and those that ran do so.
SameServers(N, M) ==
    \A f \in Ft :
        /\ N.server[f].open_docs = M.server[f].open_docs
        /\ N.server[f].mru_docs = M.server[f].mru_docs
        /\ N.server[f].view = M.server[f].view
        /\ N.server[f].confused <=> M.server[f].confused
        /\ Running(N, f) <=> Running(M, f)

LEMMA SameServersKept ==
    ASSUME NEW M, NEW N, Sound(M), N \in Tables, N.doc = M.doc, SameServers(N, M)
    PROVE  Sound(N) /\ (Honest(M) => Honest(N))
<1>1. Sound(N)
  BY DEF Sound, SameServers, Books
<1>2. ASSUME NEW d PROVE GotServer(N, d) = GotServer(M, d)
  BY SameServer DEF SameServers
<1>3. Honest(M) => Honest(N)
  BY <1>2 DEF Honest, Knows, KnowsOnly, SameServers, UriOf
<1> QED
  BY <1>1, <1>3

LEMMA StartForFtKept ==
    ASSUME NEW M, NEW f, Sound(M)
    PROVE  LET S == StartForFt(M, f) IN
           /\ Sound(S)
           /\ Honest(M) => Honest(S)
           /\ S.doc = M.doc
           /\ SameServers(S, M)
<1> DEFINE S == StartForFt(M, f)
<1>1. CASE f \in Ft /\ M.server[f].state = "down"
  <2> DEFINE s == [M.server[f] EXCEPT !.state = "starting"]
  <2>0. M \in Tables /\ M.server[f] \in ServerType
    BY <1>1, TablesType DEF Sound
  <2>1. /\ s \in ServerType
        /\ s.state = "starting"
        /\ s.open_docs = M.server[f].open_docs
        /\ s.mru_docs = M.server[f].mru_docs
        /\ s.view = M.server[f].view
        /\ s.confused = M.server[f].confused
    BY <2>0 DEF ServerType
  <2>2. S = [M EXCEPT !.server[f] = s]
    BY <1>1, <2>0 DEF StartForFt, Tables
  <2> HIDE DEF s, S
  <2>3. /\ S \in Tables
        /\ S.doc = M.doc
        /\ S.server[f] = s
        /\ \A g \in Ft \ {f} : S.server[g] = M.server[g]
    BY <1>1, <2>0, <2>1, <2>2, PutServer
  <2>4. SameServers(S, M)
    BY <1>1, <2>1, <2>3 DEF SameServers, Running
  <2> QED
    BY <2>3, <2>4, SameServersKept DEF S
<1>2. CASE ~(f \in Ft /\ M.server[f].state = "down")
  <2>1. S = M
    BY <1>2 DEF StartForFt
  <2> QED
    BY <2>1 DEF SameServers
<1> QED
  BY <1>1, <1>2

\* d is as it was, but for the filetype that is kept with it once it was asked for.
SameDoc(r, M, d) ==
    /\ r \in DocType
    /\ r.open = M.doc[d].open
    /\ r.path = M.doc[d].path
    /\ r.file_type = M.doc[d].file_type
    /\ r.text = M.doc[d].text
    /\ r.changed = M.doc[d].changed
    /\ r.marked = M.doc[d].marked
    /\ r.version = M.doc[d].version
    /\ r.cached_ft = IF M.doc[d].cached_ft # NULL THEN M.doc[d].cached_ft ELSE FtImpl(M, d)

LEMMA GetFtDoc ==
    ASSUME NEW M, NEW d \in Doc, Sound(M), M.doc[d].open
    PROVE  SameDoc(GetFt(M, d).doc[d], M, d) /\ GetFt(M, d).doc[d].cached_ft \in Ft \cup {None}
<1>1. M \in Tables /\ M.doc[d] \in DocType /\ FtImpl(M, d) \in Ft \cup {None}
  BY TablesType, FtImplType DEF Sound
<1>2. GetFt(M, d).doc[d] = [M.doc[d] EXCEPT !.cached_ft = IF @ # NULL THEN @ ELSE FtImpl(M, d)]
  BY GetFtKept
<1> QED
  BY <1>1, <1>2 DEF DocType, SameDoc

\* What GotServer() returns.
LEMMA GotServerType ==
    ASSUME NEW M, NEW d
    PROVE  /\ GotServer(M, d) \in Ft \cup {NULL}
           /\ GotServer(M, d) # NULL =>
                 /\ Running(M, GotServer(M, d))
                 /\ M.doc[d].path # NULL
                 /\ M.doc[d].cached_ft = GotServer(M, d)
BY DEF GotServer, Configured, Running

LEMMA GetKept ==
    ASSUME NEW M, NEW d \in Doc, Sound(M), M.doc[d].open
    PROVE  LET G == Get(M, d) IN
           /\ Sound(G)
           /\ Honest(M) => Honest(G)
           /\ SameServers(G, M)
           /\ SameDoc(G.doc[d], M, d)
           /\ G.doc[d].cached_ft \in Ft \cup {None}
           /\ \A e \in Doc \ {d} : G.doc[e] = M.doc[e]
<1> DEFINE F == GetFt(M, d)
           G == Get(M, d)
<1>1. G = StartForFt(F, Configured(F, d))
  BY DEF Get
<1>2. /\ Sound(F)
      /\ Honest(M) => Honest(F)
      /\ F.server = M.server
      /\ \A e \in Doc \ {d} : F.doc[e] = M.doc[e]
  BY GetFtKept
<1>3. SameDoc(F.doc[d], M, d) /\ F.doc[d].cached_ft \in Ft \cup {None}
  BY GetFtDoc
<1> HIDE DEF F, G
<1>4. /\ Sound(G)
      /\ Honest(F) => Honest(G)
      /\ G.doc = F.doc
      /\ SameServers(G, F)
  BY <1>1, <1>2, StartForFtKept
<1>5. SameServers(G, M)
  BY <1>2, <1>4 DEF SameServers, Running
<1> QED
  BY <1>2, <1>3, <1>4, <1>5 DEF G

-----------------------------------------------------------------------------
(* lsp-sync.c *)

\* What a server was told of d is forgotten; u is the name of d.
ClosedServer(s, d, u) ==
    [s EXCEPT !.mru_docs  = RemoveFirst(@, d),
              !.open_docs = @ \ {d},
              !.confused  = @ \/ u \notin DOMAIN s.view,
              !.view      = Restrict(@, DOMAIN @ \ {u})]

LEMMA RestrictView ==
    ASSUME NEW v \in View, NEW u
    PROVE  LET w == Restrict(v, DOMAIN v \ {u}) IN
           /\ w \in View
           /\ DOMAIN w = DOMAIN v \ {u}
           /\ \A x \in DOMAIN w : w[x] = v[x]
<1> DEFINE w == Restrict(v, DOMAIN v \ {u})
<1>1. PICK U \in SUBSET Uri : v \in [U -> Known]
  BY DEF View
<1>2. w \in [U \ {u} -> Known] /\ DOMAIN w = DOMAIN v \ {u} /\ \A x \in DOMAIN w : w[x] = v[x]
  BY <1>1 DEF Restrict
<1>3. U \ {u} \in SUBSET Uri
  OBVIOUS
<1> HIDE DEF w
<1>4. w \in View
  BY <1>2, <1>3 DEF View
<1> QED
  BY <1>2, <1>4 DEF w

LEMMA ClosedServerType ==
    ASSUME NEW s \in ServerType, Books(s), NEW d \in Doc, NEW u
    PROVE  LET c == ClosedServer(s, d, u) IN
           /\ c \in ServerType
           /\ Books(c)
           /\ c.state = s.state
           /\ c.open_docs = s.open_docs \ {d}
           /\ DOMAIN c.view = DOMAIN s.view \ {u}
           /\ \A x \in DOMAIN c.view : c.view[x] = s.view[x]
           /\ c.confused <=> s.confused \/ u \notin DOMAIN s.view
           /\ d \in s.open_docs => Len(c.mru_docs) = Len(s.mru_docs) - 1
<1> DEFINE m == RemoveFirst(s.mru_docs, d)
           w == Restrict(s.view, DOMAIN s.view \ {u})
           c == ClosedServer(s, d, u)
<1>1. /\ m \in Seq(Doc)
      /\ IsInjective(m)
      /\ ToSet(m) = s.open_docs \ {d}
      /\ Len(m) = IF d \in s.open_docs THEN Len(s.mru_docs) - 1 ELSE Len(s.mru_docs)
  BY RemoveFirstProperties, SMTT(30) DEF Books, ServerType
<1>2. /\ w \in View
      /\ DOMAIN w = DOMAIN s.view \ {u}
      /\ \A x \in DOMAIN w : w[x] = s.view[x]
  BY RestrictView DEF ServerType
<1>3. c = [s EXCEPT !.mru_docs = m, !.open_docs = @ \ {d},
                    !.confused = @ \/ u \notin DOMAIN s.view, !.view = w]
  BY DEF ClosedServer, ServerType
<1> HIDE DEF m, w, c
<1>4. /\ c \in ServerType
      /\ c.state = s.state
      /\ c.mru_docs = m
      /\ c.open_docs = s.open_docs \ {d}
      /\ c.view = w
  BY <1>1, <1>2, <1>3 DEF ServerType
<1>5. c.confused <=> s.confused \/ u \notin DOMAIN s.view
  BY <1>3 DEF ServerType
<1>6. Len(m) <= MRU_SIZE /\ (d \in s.open_docs => Len(m) = Len(s.mru_docs) - 1)
  <2>1. Len(s.mru_docs) \in Nat /\ Len(s.mru_docs) <= MRU_SIZE
    BY DEF Books, ServerType
  <2> QED
    BY <1>1, <2>1
<1> QED
  BY <1>1, <1>2, <1>4, <1>5, <1>6 DEF Books, c

LEMMA DidCloseKept ==
    ASSUME NEW M, NEW f \in Ft, NEW d \in Doc, Sound(M)
    PROVE  LET N == DidClose(M, f, d) IN
           /\ Sound(N)
           /\ N.doc = M.doc
           /\ \A g \in Ft \ {f} : N.server[g] = M.server[g]
           /\ N.server[f].state = M.server[f].state
           /\ N.server[f].open_docs = M.server[f].open_docs \ {d}
           /\ d \in M.server[f].open_docs =>
                 /\ N.server[f] = ClosedServer(M.server[f], d, UriOf(M, d))
                 /\ Len(N.server[f].mru_docs) < Len(M.server[f].mru_docs)
           /\ d \notin M.server[f].open_docs =>
                 /\ N.server[f].view = M.server[f].view
                 /\ N.server[f].confused = M.server[f].confused
<1> DEFINE N == DidClose(M, f, d)
           s == M.server[f]
<1>0. M \in Tables /\ s \in ServerType /\ Books(s)
  BY TablesType DEF Sound
<1>1. CASE d \notin s.open_docs
  <2> DEFINE r == [s EXCEPT !.mru_docs = RemoveFirst(@, d)]
  <2>1. /\ RemoveFirst(s.mru_docs, d) \in Seq(Doc)
        /\ IsInjective(RemoveFirst(s.mru_docs, d))
        /\ ToSet(RemoveFirst(s.mru_docs, d)) = ToSet(s.mru_docs)
        /\ Len(RemoveFirst(s.mru_docs, d)) = Len(s.mru_docs)
    <3>1. s.mru_docs \in Seq(Doc) /\ IsInjective(s.mru_docs) /\ d \notin ToSet(s.mru_docs)
      BY <1>0, <1>1 DEF Books, ServerType
    <3>2. /\ RemoveFirst(s.mru_docs, d) \in Seq(Doc)
          /\ IsInjective(RemoveFirst(s.mru_docs, d))
          /\ ToSet(RemoveFirst(s.mru_docs, d)) = ToSet(s.mru_docs) \ {d}
          /\ Len(RemoveFirst(s.mru_docs, d)) = Len(s.mru_docs)
      BY <3>1, RemoveFirstProperties
    <3> QED
      BY <3>1, <3>2
  <2>2. /\ r \in ServerType
        /\ Books(r)
        /\ r.state = s.state
        /\ r.open_docs = s.open_docs
        /\ r.view = s.view
        /\ r.confused = s.confused
    BY <1>0, <2>1 DEF Books, ServerType
  <2>3. N = [M EXCEPT !.server[f] = r]
    <3>1. N = [M EXCEPT !.server[f].mru_docs = RemoveFirst(@, d)]
      BY <1>1 DEF DidClose, DestroyDocData
    <3> DEFINE m == RemoveFirst(s.mru_docs, d)
    <3>2. N = [M EXCEPT !.server[f].mru_docs = m]
      BY <3>1
    <3> HIDE DEF m, N
    <3>3. N = [M EXCEPT !.server[f] = [M.server[f] EXCEPT !.mru_docs = m]]
      BY <1>0, <3>2 DEF Tables
    <3> QED
      BY <3>3 DEF m
  <2> HIDE DEF r, N
  <2>4. /\ N \in Tables
        /\ N.doc = M.doc
        /\ N.server[f] = r
        /\ \A g \in Ft \ {f} : N.server[g] = M.server[g]
    BY <1>0, <2>2, <2>3, PutServer
  <2>5. Sound(N)
    BY <2>2, <2>4 DEF Sound
  <2> QED
    BY <1>1, <2>2, <2>4, <2>5 DEF N
<1>2. CASE d \in s.open_docs
  <2> DEFINE u == UriOf(M, d)
             c == ClosedServer(s, d, u)
  <2>1. /\ c \in ServerType
        /\ Books(c)
        /\ c.state = s.state
        /\ c.open_docs = s.open_docs \ {d}
        /\ Len(c.mru_docs) = Len(s.mru_docs) - 1
    BY <1>0, <1>2, ClosedServerType
  <2>2. N = [M EXCEPT !.server[f] = c]
    <3> DEFINE m == RemoveFirst(s.mru_docs, d)
               D == DestroyDocData(M, f, d)
               E == [D EXCEPT !.server[f].open_docs = @ \ {d}]
               t == [s EXCEPT !.mru_docs = m]
               o == [s EXCEPT !.mru_docs = m, !.open_docs = @ \ {d}]
               b == u \notin DOMAIN s.view
               w == Restrict(s.view, DOMAIN s.view \ {u})
    <3>1. D = [M EXCEPT !.server[f].mru_docs = m]
      BY DEF DestroyDocData
    <3>2. N = [E EXCEPT !.server[f].confused = @ \/ u \notin DOMAIN E.server[f].view,
                        !.server[f].view = Restrict(@, DOMAIN @ \ {u})]
      BY <1>2 DEF DidClose, TellClosed
    <3> HIDE DEF D, m
    <3>3. D = [M EXCEPT !.server[f] = t]
      BY <1>0, <3>1 DEF Tables
    <3>4. E = [M EXCEPT !.server[f] = o]
      BY <1>0, <3>3 DEF Tables, ServerType
    <3> HIDE DEF E
    <3>5. E.server[f] = o /\ o.view = s.view /\ o.confused = s.confused
      BY <1>0, <3>4 DEF Tables, ServerType
    <3>6. N = [E EXCEPT !.server[f].confused = @ \/ b, !.server[f].view = w]
      BY <3>2, <3>5
    <3> HIDE DEF w, b, N
    <3>7. N = [M EXCEPT !.server[f] = [o EXCEPT !.confused = @ \/ b, !.view = w]]
      BY <1>0, <3>4, <3>6, ZenonT(30) DEF Tables, ServerType
    <3>8. [o EXCEPT !.confused = @ \/ b, !.view = w] = c
      BY <1>0 DEF ServerType, ClosedServer, m, w, b
    <3> QED
      BY <3>7, <3>8
  <2> HIDE DEF c, N
  <2>3. /\ N \in Tables
        /\ N.doc = M.doc
        /\ N.server[f] = c
        /\ \A g \in Ft \ {f} : N.server[g] = M.server[g]
    BY <1>0, <2>1, <2>2, PutServer
  <2>4. Sound(N)
    BY <2>1, <2>3 DEF Sound
  <2>5. Len(c.mru_docs) < Len(s.mru_docs)
    BY <1>0, <2>1 DEF ServerType
  <2> QED
    BY <1>2, <2>1, <2>3, <2>4, <2>5 DEF c, N
<1> QED
  BY <1>1, <1>2

\* Closing is told to a server that knows the document, and only to it.
LEMMA DidCloseHonest ==
    ASSUME NEW M, NEW f \in Ft, NEW d \in Doc, Sound(M), Honest(M)
    PROVE  Honest(DidClose(M, f, d))
<1> DEFINE N == DidClose(M, f, d)
           s == M.server[f]
           u == UriOf(M, d)
<1>0. M \in Tables /\ s \in ServerType /\ Books(s)
  BY TablesType DEF Sound
<1>1. /\ N.doc = M.doc
      /\ \A g \in Ft \ {f} : N.server[g] = M.server[g]
      /\ N.server[f].state = s.state
      /\ N.server[f].open_docs = s.open_docs \ {d}
      /\ d \in s.open_docs => N.server[f] = ClosedServer(s, d, u)
      /\ d \notin s.open_docs =>
            /\ N.server[f].view = s.view
            /\ N.server[f].confused = s.confused
  BY DidCloseKept
<1> HIDE DEF N
<1>2. ASSUME NEW e PROVE GotServer(N, e) = GotServer(M, e)
  BY <1>1, SameServer DEF Running
<1>3. ASSUME NEW g \in Ft \ {f}
      PROVE  /\ ~N.server[g].confused
             /\ \A e \in N.server[g].open_docs : Knows(N, g, e)
             /\ KnowsOnly(N, g)
  BY <1>1, <1>2 DEF Honest, Knows, KnowsOnly, UriOf
<1>4. /\ ~N.server[f].confused
      /\ \A e \in N.server[f].open_docs : Knows(N, f, e)
      /\ KnowsOnly(N, f)
  <2>1. CASE d \notin s.open_docs
    BY <1>1, <1>2, <2>1 DEF Honest, Knows, KnowsOnly, UriOf
  <2>2. CASE d \in s.open_docs
    <3> DEFINE c == ClosedServer(s, d, u)
    <3>1. /\ N.server[f] = c
          /\ c.open_docs = s.open_docs \ {d}
          /\ DOMAIN c.view = DOMAIN s.view \ {u}
          /\ \A x \in DOMAIN c.view : c.view[x] = s.view[x]
          /\ c.confused <=> s.confused \/ u \notin DOMAIN s.view
      BY <1>0, <1>1, <2>2, ClosedServerType
    <3> HIDE DEF c
    <3>2. ~N.server[f].confused
      BY <2>2, <3>1 DEF Honest, Knows
    <3>3. ASSUME NEW e \in N.server[f].open_docs PROVE Knows(N, f, e)
      <4>1. e # d /\ Knows(M, f, e)
        BY <3>1 DEF Honest
      <4>2. UriOf(N, e) = UriOf(M, e) /\ UriOf(M, e) # u
        BY <1>1, <4>1 DEF UriOf
      <4> QED
        BY <1>1, <1>2, <3>1, <4>1, <4>2 DEF Knows
    <3>4. ASSUME NEW x \in DOMAIN N.server[f].view
          PROVE  x[1] \in N.server[f].open_docs /\ x[2] = N.doc[x[1]].path
      <4>1. x \in DOMAIN s.view /\ x # u /\ x[1] \in s.open_docs /\ x[2] = M.doc[x[1]].path
        BY <3>1 DEF Honest, KnowsOnly
      <4>2. x \in Uri
        BY <1>0, <4>1 DEF ServerType, View
      <4>3. x[1] # d
        BY <4>1, <4>2 DEF UriOf, Uri
      <4> QED
        BY <1>1, <3>1, <4>1, <4>3
    <3> QED
      BY <3>2, <3>3, <3>4 DEF KnowsOnly
  <2> QED
    BY <2>1, <2>2
<1> QED
  BY <1>3, <1>4 DEF Honest, N

\* The books of a server that opens d, which it is told of as u.
OpenedServer(s, d, u, text, version) ==
    [s EXCEPT !.open_docs = @ \cup {d},
              !.mru_docs  = Append(@, d),
              !.confused  = @ \/ u \in DOMAIN s.view,
              !.view = [x \in DOMAIN @ \cup {u} |->
                            IF x = u THEN [text |-> text, version |-> version] ELSE @[x]]]

\* A view with k for u.
Viewed(v, u, k) == [x \in DOMAIN v \cup {u} |-> IF x = u THEN k ELSE v[x]]

\* What the books need to know of it.
SaysOf(v, u, k) ==
    /\ Viewed(v, u, k) \in View
    /\ DOMAIN Viewed(v, u, k) = DOMAIN v \cup {u}
    /\ Viewed(v, u, k)[u] = k
    /\ \A x \in DOMAIN v \ {u} : Viewed(v, u, k)[x] = v[x]

LEMMA ToldView ==
    ASSUME NEW v \in View, NEW u \in Uri, NEW k \in Known
    PROVE  SaysOf(v, u, k)
<1> DEFINE w == Viewed(v, u, k)
<1>1. PICK U \in SUBSET Uri : v \in [U -> Known]
  BY DEF View
<1>2. /\ w \in [U \cup {u} -> Known]
      /\ DOMAIN w = DOMAIN v \cup {u}
      /\ w[u] = k
      /\ \A x \in DOMAIN v \ {u} : w[x] = v[x]
  BY <1>1 DEF Viewed
<1>3. U \cup {u} \in SUBSET Uri
  OBVIOUS
<1> HIDE DEF w
<1>4. w \in View
  BY <1>2, <1>3 DEF View
<1> QED
  BY <1>2, <1>4 DEF w, SaysOf

LEMMA AppendBooks ==
    ASSUME NEW q \in Seq(Doc), IsInjective(q), NEW d \in Doc, d \notin ToSet(q)
    PROVE  /\ Append(q, d) \in Seq(Doc)
           /\ IsInjective(Append(q, d))
           /\ ToSet(Append(q, d)) = ToSet(q) \cup {d}
           /\ Len(Append(q, d)) = Len(q) + 1
<1> DEFINE a == Append(q, d)
<1>1. /\ a \in Seq(Doc)
      /\ DOMAIN a = 1 .. Len(q) + 1
      /\ Len(a) = Len(q) + 1
      /\ \A i \in 1 .. Len(q) : a[i] = q[i]
      /\ a[Len(q) + 1] = d
  OBVIOUS
<1>2. /\ DOMAIN q = 1 .. Len(q)
      /\ Len(q) \in Nat
      /\ \A i, j \in 1 .. Len(q) : q[i] = q[j] => i = j
      /\ \A i \in 1 .. Len(q) : q[i] # d
  BY DEF IsInjective, ToSet
<1>3. 1 .. Len(q) + 1 = (1 .. Len(q)) \cup {Len(q) + 1}
  BY <1>2
<1> HIDE DEF a
<1>4. IsInjective(a)
  BY <1>1, <1>2, <1>3 DEF IsInjective
<1>5. ToSet(a) = ToSet(q) \cup {d}
  BY <1>1, <1>2, <1>3 DEF ToSet
<1> QED
  BY <1>1, <1>4, <1>5 DEF a

LEMMA OpenedServerType ==
    ASSUME NEW s \in ServerType, Books(s), Len(s.mru_docs) < MRU_SIZE,
           NEW d \in Doc, d \notin s.open_docs,
           NEW u \in Uri, NEW text \in Text, NEW version \in Nat
    PROVE  LET o == OpenedServer(s, d, u, text, version) IN
           /\ o \in ServerType
           /\ Books(o)
           /\ o.state = s.state
           /\ o.open_docs = s.open_docs \cup {d}
           /\ DOMAIN o.view = DOMAIN s.view \cup {u}
           /\ o.view[u] = [text |-> text, version |-> version]
           /\ \A x \in DOMAIN s.view \ {u} : o.view[x] = s.view[x]
           /\ o.confused <=> s.confused \/ u \in DOMAIN s.view
<1> DEFINE m == Append(s.mru_docs, d)
           k == [text |-> text, version |-> version]
           w == Viewed(s.view, u, k)
           o == OpenedServer(s, d, u, text, version)
<1>1. /\ m \in Seq(Doc)
      /\ IsInjective(m)
      /\ ToSet(m) = s.open_docs \cup {d}
      /\ Len(m) = Len(s.mru_docs) + 1
  BY AppendBooks DEF Books, ServerType
<1>2. k \in Known
  BY DEF Known
<1> HIDE DEF k
<1>3. /\ w \in View
      /\ DOMAIN w = DOMAIN s.view \cup {u}
      /\ w[u] = k
      /\ \A x \in DOMAIN s.view \ {u} : w[x] = s.view[x]
  <2>1. s.view \in View
    BY DEF ServerType
  <2>2. SaysOf(s.view, u, k)
    BY <1>2, <2>1, ToldView
  <2> QED
    BY <2>2 DEF SaysOf
<1>4. o = [s EXCEPT !.open_docs = @ \cup {d}, !.mru_docs = m,
                    !.confused = @ \/ u \in DOMAIN s.view, !.view = w]
  BY DEF OpenedServer, ServerType, Viewed, k
<1> HIDE DEF m, w, o
<1>5. /\ o \in ServerType
      /\ o.state = s.state
      /\ o.mru_docs = m
      /\ o.open_docs = s.open_docs \cup {d}
      /\ o.view = w
  BY <1>1, <1>3, <1>4 DEF ServerType
<1>6. o.confused <=> s.confused \/ u \in DOMAIN s.view
  BY <1>4 DEF ServerType
<1>7. Len(m) <= MRU_SIZE
  <2>1. Len(s.mru_docs) \in Nat
    BY DEF ServerType
  <2> QED
    BY <1>1, <2>1
<1> QED
  BY <1>1, <1>3, <1>5, <1>6, <1>7 DEF Books, o, k

\* The document that makes room is another one, and is open nowhere afterwards.
LEMMA MakeRoomKept ==
    ASSUME NEW M, NEW f \in Ft, NEW d \in Doc, Sound(M), d \notin M.server[f].open_docs
    PROVE  LET R == MakeRoom(M, f) IN
           /\ Sound(R)
           /\ Honest(M) => Honest(R)
           /\ R.doc = M.doc
           /\ \A g \in Ft \ {f} : R.server[g] = M.server[g]
           /\ R.server[f].state = M.server[f].state
           /\ R.server[f].open_docs \subseteq M.server[f].open_docs
           /\ Len(R.server[f].mru_docs) < MRU_SIZE
<1> DEFINE R == MakeRoom(M, f)
           s == M.server[f]
           c == Head(s.mru_docs)
<1>0. s \in ServerType /\ Books(s) /\ Len(s.mru_docs) \in Nat
  BY TablesType DEF Sound, ServerType
<1>1. CASE Len(s.mru_docs) < MRU_SIZE
  BY <1>1 DEF MakeRoom
<1>2. CASE ~(Len(s.mru_docs) < MRU_SIZE)
  <2>1. s.mru_docs # <<>> /\ s.mru_docs \in Seq(Doc)
    BY <1>0, <1>2 DEF ServerType
  <2>2. c \in s.open_docs /\ c \in Doc
    BY <1>0, <2>1 DEF Books, ToSet
  <2>3. R = DidClose(M, f, c)
    BY <1>2 DEF MakeRoom
  <2> HIDE DEF R, c
  <2>4. /\ Sound(R)
        /\ R.doc = M.doc
        /\ \A g \in Ft \ {f} : R.server[g] = M.server[g]
        /\ R.server[f].state = M.server[f].state
        /\ R.server[f].open_docs = M.server[f].open_docs \ {c}
        /\ Len(R.server[f].mru_docs) < Len(M.server[f].mru_docs)
    BY <2>2, <2>3, DidCloseKept
  <2>5. Honest(M) => Honest(R)
    BY <2>2, <2>3, DidCloseHonest
  <2>6. Len(R.server[f].mru_docs) < MRU_SIZE
    <3>1. Len(R.server[f].mru_docs) \in Nat
      BY <2>4, TablesType DEF Sound, ServerType
    <3> QED
      BY <1>0, <2>4, <3>1 DEF Books
  <2> QED
    BY <2>4, <2>5, <2>6 DEF R
<1> QED
  BY <1>1, <1>2

\* The tables after d was opened at f, where it was not open.
LEMMA DidOpenTables ==
    ASSUME NEW M, NEW f \in Ft, NEW d \in Doc, Sound(M), d \notin M.server[f].open_docs,
           M.doc[d].path # NULL
    PROVE  LET N == DidOpen(M, f, d)
               R == MakeRoom(M, f)
               r == [M.doc[d] EXCEPT !.version = @ + 1]
               o == OpenedServer(R.server[f], d, UriOf(M, d), r.text, r.version)
           IN /\ r \in DocType
              /\ N = [[R EXCEPT !.doc[d] = r] EXCEPT !.server[f] = o]
<1> DEFINE N == DidOpen(M, f, d)
           R == MakeRoom(M, f)
           r == [M.doc[d] EXCEPT !.version = @ + 1]
           V == NextVersion(R, d)
           u == UriOf(M, d)
           s == R.server[f]
           k == [text |-> V.doc[d].text, version |-> V.doc[d].version]
           O == [V EXCEPT !.server[f].open_docs = @ \cup {d},
                          !.server[f].mru_docs  = Append(@, d),
                          !.server[f].confused  = @ \/ u \in DOMAIN V.server[f].view]
<1>1. Sound(R) /\ R.doc = M.doc
  BY MakeRoomKept
<1>2. R \in Tables /\ s \in ServerType /\ M.doc[d] \in DocType
  BY <1>1, TablesType DEF Sound
<1>3. r \in DocType
  BY <1>2 DEF DocType
<1>4. N = [O EXCEPT !.server[f].view =
              [x \in DOMAIN @ \cup {u} |-> IF x = u THEN k ELSE @[x]]]
  <2>1. N = Tell(O, f, u, V.doc[d].text, V.doc[d].version)
    BY DEF DidOpen
  <2> HIDE DEF N, O, V, u
  <2> QED
    BY <2>1 DEF Tell
<1>5. V = [R EXCEPT !.doc[d] = r]
  BY <1>1, <1>2 DEF NextVersion, Tables
<1> HIDE DEF V, R
<1>6. V \in Tables /\ V.server[f] = s /\ V.doc[d] = r
  BY <1>2, <1>3, <1>5 DEF Tables
<1> HIDE DEF s, u, r
<1> DEFINE b == u \in DOMAIN s.view
           m == Append(s.mru_docs, d)
           w == [x \in DOMAIN s.view \cup {u} |-> IF x = u THEN k ELSE s.view[x]]
           p == [s EXCEPT !.open_docs = @ \cup {d}, !.mru_docs = m, !.confused = @ \/ b]
<1>7. O = [V EXCEPT !.server[f].open_docs = @ \cup {d}, !.server[f].mru_docs = m,
                    !.server[f].confused = @ \/ b]
  BY <1>6 DEF Tables
<1> HIDE DEF O, b, m
<1>8. O = [V EXCEPT !.server[f] = [V.server[f] EXCEPT !.open_docs = @ \cup {d}, !.mru_docs = m,
                                                      !.confused = @ \/ b]]
  BY <1>2, <1>6, <1>7, ZenonT(30) DEF Tables, ServerType
<1>9. O.server[f] = p /\ p.view = s.view
  BY <1>2, <1>6, <1>8 DEF Tables, ServerType
<1> HIDE DEF k
<1>10. N = [O EXCEPT !.server[f].view = w]
  BY <1>4, <1>9
<1> HIDE DEF w, N
<1>11. N = [V EXCEPT !.server[f] = [p EXCEPT !.view = w]]
  BY <1>2, <1>6, <1>8, <1>10 DEF Tables, ServerType
<1>12. [p EXCEPT !.view = w] = OpenedServer(s, d, u, V.doc[d].text, V.doc[d].version)
  BY <1>2 DEF ServerType, OpenedServer, b, m, w, k
<1> QED
  BY <1>3, <1>5, <1>6, <1>11, <1>12 DEF N, R, r, s, u

\* Only the version of d may change, no server starts or stops, and d is open at f.
OpenedAt(N, M, f, d) ==
    /\ Sound(N)
    /\ \A e \in Doc \ {d} : N.doc[e] = M.doc[e]
    /\ \E version \in Nat : N.doc[d] = [M.doc[d] EXCEPT !.version = version]
    /\ \A g \in Ft : N.server[g].state = M.server[g].state
    /\ d \in N.server[f].open_docs

LEMMA NextVersionType ==
    ASSUME NEW q \in DocType
    PROVE  LET r == [q EXCEPT !.version = @ + 1] IN
           /\ r \in DocType
           /\ r.open = q.open
           /\ r.path = q.path
           /\ r.text = q.text
           /\ r.cached_ft = q.cached_ft
           /\ r.version = q.version + 1
           /\ r.version \in Nat
           /\ r.text \in Text
           /\ r = [q EXCEPT !.version = r.version]
BY DEF DocType

LEMMA DidOpenKept ==
    ASSUME NEW M, NEW f \in Ft, NEW d \in Doc, Sound(M),
           M.doc[d].open, M.doc[d].path # NULL
    PROVE  LET N == DidOpen(M, f, d) IN
           /\ OpenedAt(N, M, f, d)
           /\ Honest(M) /\ GotServer(M, d) = f => Honest(N)
<1> DEFINE N == DidOpen(M, f, d)
<1>0. M \in Tables /\ M.doc[d] \in DocType
  BY TablesType DEF Sound
<1>1. CASE d \in M.server[f].open_docs
  <2>1. N = M
    BY <1>1 DEF DidOpen
  <2>2. M.doc[d] = [M.doc[d] EXCEPT !.version = M.doc[d].version] /\ M.doc[d].version \in Nat
    BY <1>0 DEF DocType
  <2> QED
    BY <1>1, <2>1, <2>2 DEF OpenedAt
<1>2. CASE d \notin M.server[f].open_docs
  <2> DEFINE R == MakeRoom(M, f)
             r == [M.doc[d] EXCEPT !.version = @ + 1]
             u == UriOf(M, d)
             s == R.server[f]
             o == OpenedServer(s, d, u, r.text, r.version)
             V == [R EXCEPT !.doc[d] = r]
  <2>1. /\ Sound(R)
        /\ Honest(M) => Honest(R)
        /\ R.doc = M.doc
        /\ \A g \in Ft \ {f} : R.server[g] = M.server[g]
        /\ s.state = M.server[f].state
        /\ s.open_docs \subseteq M.server[f].open_docs
        /\ Len(s.mru_docs) < MRU_SIZE
    BY <1>2, MakeRoomKept
  <2>2. /\ r \in DocType
        /\ N = [V EXCEPT !.server[f] = o]
    BY <1>2, DidOpenTables
  <2>3. /\ r.text = M.doc[d].text /\ r.text \in Text
        /\ r.version = M.doc[d].version + 1 /\ r.version \in Nat
        /\ r.open = M.doc[d].open
        /\ r.path = M.doc[d].path
        /\ r.cached_ft = M.doc[d].cached_ft
        /\ r = [M.doc[d] EXCEPT !.version = r.version]
    BY <1>0, NextVersionType
  <2>4. u \in Uri /\ u = <<d, M.doc[d].path>>
    BY <1>0 DEF DocType, Uri, UriOf
  <2>5. R \in Tables /\ s \in ServerType /\ Books(s) /\ d \notin s.open_docs
    BY <1>2, <2>1, TablesType DEF Sound
  <2>12. r \in DocType /\ R \in Tables
    BY <2>2, <2>5
  <2>13. V = [R EXCEPT !.doc[d] = r]
    OBVIOUS
  <2> HIDE DEF R, r, u, s, V, N
  <2>14. r.text \in Text /\ r.version \in Nat /\ u \in Uri /\ Len(s.mru_docs) < MRU_SIZE
    BY <2>1, <2>3, <2>4
  <2>6. /\ o \in ServerType
        /\ Books(o)
        /\ o.state = s.state
        /\ o.open_docs = s.open_docs \cup {d}
        /\ DOMAIN o.view = DOMAIN s.view \cup {u}
        /\ o.view[u] = [text |-> r.text, version |-> r.version]
        /\ \A x \in DOMAIN s.view \ {u} : o.view[x] = s.view[x]
        /\ o.confused <=> s.confused \/ u \in DOMAIN s.view
    BY <2>5, <2>14, OpenedServerType
  <2> HIDE DEF o
  <2>15. o \in ServerType
    BY <2>6
  <2>7. /\ V \in Tables
        /\ V.server = R.server
        /\ V.doc[d] = r
        /\ \A e \in Doc \ {d} : V.doc[e] = R.doc[e]
    BY <2>12, <2>13 DEF Tables
  <2>8. /\ N \in Tables
        /\ N.doc = V.doc
        /\ N.server[f] = o
        /\ \A g \in Ft \ {f} : N.server[g] = V.server[g]
    <3>1. V \in Tables /\ N = [V EXCEPT !.server[f] = o]
      BY <2>2, <2>7
    <3> QED
      BY <2>15, <3>1 DEF Tables
  <2>9. Sound(N)
    <3>1. r.open
      BY <2>3
    <3>2. \A e \in Doc : N.doc[e].open \/ N.doc[e] = Closed
      BY <2>1, <2>7, <2>8, <3>1 DEF Sound
    <3>3. \A g \in Ft : Books(N.server[g])
      BY <2>1, <2>6, <2>7, <2>8 DEF Sound
    <3> QED
      BY <2>8, <3>2, <3>3 DEF Sound
  <2>10. OpenedAt(N, M, f, d)
    <3>1. \A e \in Doc \ {d} : N.doc[e] = M.doc[e]
      BY <2>1, <2>7, <2>8
    <3>2. \E version \in Nat : N.doc[d] = [M.doc[d] EXCEPT !.version = version]
      BY <2>3, <2>7, <2>8
    <3>3. \A g \in Ft : N.server[g].state = M.server[g].state
      BY <2>1, <2>6, <2>7, <2>8
    <3>4. d \in N.server[f].open_docs
      BY <2>6, <2>8
    <3> QED
      BY <2>9, <3>1, <3>2, <3>3, <3>4 DEF OpenedAt
  <2>11. ASSUME Honest(M), GotServer(M, d) = f PROVE Honest(N)
    <3>1. Honest(R)
      BY <2>1, <2>11
    <3>2. ASSUME NEW e \in Doc PROVE GotServer(N, e) = GotServer(R, e)
      <4>1. N.doc[e].path = R.doc[e].path /\ N.doc[e].cached_ft = R.doc[e].cached_ft
        BY <2>1, <2>3, <2>7, <2>8
      <4>2. \A g \in Ft : Running(N, g) <=> Running(R, g)
        BY <2>6, <2>7, <2>8 DEF Running, s
      <4> QED
        BY <4>1, <4>2, SameServer
    <3>3. GotServer(R, d) = f
      <4>1. \A g \in Ft : Running(R, g) <=> Running(M, g)
        BY <2>1 DEF Running, s
      <4> QED
        BY <2>1, <2>11, <4>1, SameServer
    <3>4. Unopened(R, d)
      <4> SUFFICES ASSUME NEW g \in Ft, d \in R.server[g].open_docs PROVE FALSE
        BY DEF Unopened
      <4>1. g = f
        BY <3>1, <3>3 DEF Honest, Knows
      <4> QED
        BY <2>5, <4>1 DEF s
    <3>5. ASSUME NEW e \in Doc \ {d} PROVE UriOf(N, e) = UriOf(R, e) /\ UriOf(N, e) # u
      BY <2>4, <2>7, <2>8 DEF UriOf
    <3>6. ASSUME NEW g \in Ft \ {f}
          PROVE  /\ ~N.server[g].confused
                 /\ \A e \in N.server[g].open_docs : Knows(N, g, e)
                 /\ KnowsOnly(N, g)
      <4>0. R.server[g] \in ServerType /\ N.server[g] = R.server[g]
        BY <2>5, <2>7, <2>8, TablesType
      <4>1. ASSUME NEW e \in N.server[g].open_docs PROVE Knows(N, g, e)
        <5>1. e \in Doc \ {d} /\ Knows(R, g, e)
          BY <3>1, <3>4, <4>0 DEF Honest, Unopened, ServerType
        <5> QED
          BY <2>7, <2>8, <3>2, <3>5, <4>0, <5>1 DEF Knows
      <4>2. ASSUME NEW x \in DOMAIN N.server[g].view
            PROVE  x[1] \in N.server[g].open_docs /\ x[2] = N.doc[x[1]].path
        <5>1. x[1] \in R.server[g].open_docs /\ x[2] = R.doc[x[1]].path
          BY <3>1, <4>0 DEF Honest, KnowsOnly
        <5>2. x[1] \in Doc \ {d}
          BY <3>4, <4>0, <5>1 DEF Unopened, ServerType
        <5> QED
          BY <2>7, <2>8, <4>0, <5>1, <5>2
      <4> QED
        BY <3>1, <4>0, <4>1, <4>2 DEF Honest, KnowsOnly
    <3>7. /\ ~N.server[f].confused
          /\ \A e \in N.server[f].open_docs : Knows(N, f, e)
          /\ KnowsOnly(N, f)
      <4>0. u \notin DOMAIN s.view
        BY <2>4, <2>5, <3>1 DEF Honest, KnowsOnly, s
      <4>1. ~N.server[f].confused
        BY <2>6, <2>8, <3>1, <4>0 DEF Honest, s
      <4>2. Knows(N, f, d)
        <5>1. UriOf(N, d) = u
          BY <2>3, <2>4, <2>7, <2>8 DEF UriOf
        <5> QED
          BY <2>3, <2>6, <2>7, <2>8, <3>2, <3>3, <5>1 DEF Knows
      <4>3. ASSUME NEW e \in s.open_docs PROVE Knows(N, f, e)
        <5>1. e \in Doc \ {d} /\ Knows(R, f, e)
          BY <2>5, <3>1 DEF Honest, ServerType, s
        <5>2. N.server[f].view[UriOf(N, e)] = R.server[f].view[UriOf(R, e)]
          BY <2>6, <2>8, <3>5, <5>1 DEF Knows, s
        <5> QED
          BY <2>6, <2>7, <2>8, <3>2, <3>5, <5>1, <5>2 DEF Knows, s
      <4>4. ASSUME NEW x \in DOMAIN N.server[f].view
            PROVE  x[1] \in N.server[f].open_docs /\ x[2] = N.doc[x[1]].path
        <5>1. CASE x = u
          BY <2>3, <2>4, <2>6, <2>7, <2>8, <5>1
        <5>2. CASE x # u
          <6>1. x[1] \in s.open_docs /\ x[2] = R.doc[x[1]].path
            BY <2>6, <2>8, <3>1, <5>2 DEF Honest, KnowsOnly, s
          <6>2. x[1] \in Doc \ {d}
            BY <2>5, <6>1 DEF ServerType
          <6> QED
            BY <2>6, <2>7, <2>8, <6>1, <6>2
        <5> QED
          BY <5>1, <5>2
      <4> QED
        BY <2>6, <2>8, <4>1, <4>2, <4>3, <4>4 DEF KnowsOnly
    <3> QED
      BY <3>6, <3>7 DEF Honest
  <2> QED
    BY <2>10, <2>11 DEF N
<1> QED
  BY <1>1, <1>2

LEMMA DidSaveKept ==
    ASSUME NEW M, NEW f \in Ft, NEW d \in Doc, Sound(M)
    PROVE  LET N == DidSave(M, f, d) IN
           /\ Sound(N)
           /\ N.doc = M.doc
           /\ \A g \in Ft : N.server[g].state = M.server[g].state
           /\ Honest(M) /\ d \in M.server[f].open_docs => Honest(N)
<1> DEFINE N == DidSave(M, f, d)
           s == M.server[f]
           b == UriOf(M, d) \notin DOMAIN s.view
           r == [s EXCEPT !.confused = @ \/ b]
<1>0. M \in Tables /\ s \in ServerType /\ Books(s)
  BY TablesType DEF Sound
<1>1. N = [M EXCEPT !.server[f].confused = @ \/ b]
  BY DEF DidSave
<1> HIDE DEF N, b
<1>2. N = [M EXCEPT !.server[f] = r]
  BY <1>0, <1>1 DEF Tables, ServerType
<1>3. /\ r \in ServerType
      /\ r.state = s.state
      /\ r.open_docs = s.open_docs
      /\ r.mru_docs = s.mru_docs
      /\ r.view = s.view
  BY <1>0 DEF ServerType
<1>4. ~b => (r.confused <=> s.confused)
  BY <1>0 DEF ServerType
<1> HIDE DEF r
<1>5. /\ N \in Tables
      /\ N.doc = M.doc
      /\ N.server[f] = r
      /\ \A g \in Ft \ {f} : N.server[g] = M.server[g]
  BY <1>0, <1>2, <1>3 DEF Tables
<1>6. Sound(N)
  BY <1>0, <1>3, <1>5 DEF Sound, Books
<1>7. Honest(M) /\ d \in s.open_docs => ~b
  BY DEF Honest, Knows, b
<1>8. ~b => SameServers(N, M)
  BY <1>3, <1>4, <1>5 DEF SameServers, Running
<1>9. Honest(M) /\ d \in s.open_docs => Honest(N)
  BY <1>5, <1>7, <1>8, SameServersKept
<1>10. \A g \in Ft : N.server[g].state = M.server[g].state
  BY <1>3, <1>5
<1> QED
  BY <1>5, <1>6, <1>9, <1>10 DEF N

\* What the server of f knows of d once it was told of a change from t to t + 1.
Changed(M, f, d, t) ==
    IF f \notin Incremental THEN M.doc[d].text
    ELSE IF M.server[f].view[UriOf(M, d)].text = t THEN t + 1 ELSE Garbled

\* N is M once the server of f was told of that change of d.
ChangeTold(N, M, f, d, t) ==
    LET u == UriOf(M, d)
        s == M.server[f]
        c == N.server[f]
    IN /\ Sound(N)
       /\ \A e \in Doc \ {d} : N.doc[e] = M.doc[e]
       /\ N.doc[d] = [M.doc[d] EXCEPT !.version = @ + 1]
       /\ \A g \in Ft \ {f} : N.server[g] = M.server[g]
       /\ c.state = s.state
       /\ c.open_docs = s.open_docs
       /\ u \in DOMAIN s.view /\ s.view[u].version = M.doc[d].version =>
             /\ c.confused <=> s.confused
             /\ DOMAIN c.view = DOMAIN s.view
             /\ c.view[u] = [text |-> Changed(M, f, d, t), version |-> M.doc[d].version + 1]
             /\ \A x \in DOMAIN s.view \ {u} : c.view[x] = s.view[x]

LEMMA DidChangeKept ==
    ASSUME NEW M, NEW f \in Ft, NEW d \in Doc, Sound(M), M.doc[d].open,
           NEW t \in Nat, t + 1 \in Text
    PROVE  ChangeTold(DidChange(M, f, d, t), M, f, d, t)
<1> DEFINE N == DidChange(M, f, d, t)
           u == UriOf(M, d)
           s == M.server[f]
           r == [M.doc[d] EXCEPT !.version = @ + 1]
           V == NextVersion(M, d)
<1>0. M \in Tables /\ M.doc[d] \in DocType /\ s \in ServerType /\ Books(s)
  BY TablesType DEF Sound
<1>1. /\ r \in DocType
      /\ r.open = M.doc[d].open
      /\ r.version = M.doc[d].version + 1
      /\ r.version \in Nat
      /\ M.doc[d].version \in Nat
  BY <1>0, NextVersionType DEF DocType
<1>2. V = [M EXCEPT !.doc[d] = r]
  BY <1>0 DEF NextVersion, Tables
<1> HIDE DEF V, r
<1>3. /\ V \in Tables
      /\ V.server = M.server
      /\ V.doc[d] = r
      /\ \A e \in Doc \ {d} : V.doc[e] = M.doc[e]
  BY <1>0, <1>1, <1>2 DEF Tables
<1>4. Sound(V)
  BY <1>1, <1>3 DEF Sound
<1>5. CASE u \notin DOMAIN s.view
  <2> DEFINE q == [s EXCEPT !.confused = TRUE]
  <2>1. N = [V EXCEPT !.server[f].confused = TRUE]
    BY <1>5 DEF DidChange, V
  <2> HIDE DEF N
  <2>2. N = [V EXCEPT !.server[f] = q]
    BY <1>3, <2>1 DEF Tables, ServerType
  <2>3. /\ q \in ServerType
        /\ q.state = s.state
        /\ q.open_docs = s.open_docs
        /\ q.mru_docs = s.mru_docs
    BY <1>0 DEF ServerType
  <2> HIDE DEF q
  <2>4. /\ N \in Tables
        /\ N.doc = V.doc
        /\ N.server[f] = q
        /\ \A g \in Ft \ {f} : N.server[g] = V.server[g]
    BY <1>3, <2>2, <2>3 DEF Tables
  <2>5. Sound(N)
    BY <1>0, <1>3, <1>4, <2>3, <2>4 DEF Sound, Books
  <2> QED
    BY <1>3, <1>5, <2>3, <2>4, <2>5 DEF N, r, ChangeTold
<1>6. CASE u \in DOMAIN s.view
  <2> DEFINE k == [text |-> Changed(M, f, d, t), version |-> r.version]
             b == V.doc[d].version <= s.view[u].version
             w == Viewed(s.view, u, k)
             q == [s EXCEPT !.confused = @ \/ b, !.view = w]
             C == [V EXCEPT !.server[f].confused = @ \/ b]
  <2>1. N = [C EXCEPT !.server[f].view =
                [x \in DOMAIN @ \cup {u} |-> IF x = u THEN k ELSE @[x]]]
    <3>1. N = Tell(C, f, u, Changed(M, f, d, t), V.doc[d].version)
      BY <1>6 DEF DidChange, Changed, V
    <3>2. V.doc[d].version = r.version
      BY <1>3
    <3> HIDE DEF C, N, u
    <3> QED
      BY <3>1, <3>2 DEF Tell
  <2>2. u \in Uri /\ s.view \in View
    BY <1>0, <1>6 DEF ServerType, View
  <2>3. k \in Known
    <3>1. M.doc[d].text \in Text
      BY <1>0 DEF DocType
    <3> QED
      BY <1>1, <3>1 DEF Known, Changed
  <2> HIDE DEF k, u, N
  <2>4. /\ w \in View
        /\ DOMAIN w = DOMAIN s.view \cup {u}
        /\ w[u] = k
        /\ \A x \in DOMAIN s.view \ {u} : w[x] = s.view[x]
    <3>1. SaysOf(s.view, u, k)
      BY <2>2, <2>3, ToldView
    <3> QED
      BY <3>1 DEF SaysOf
  <2>5. N = [V EXCEPT !.server[f] = q]
    <3> HIDE DEF b
    <3>1. C = [V EXCEPT !.server[f] = [s EXCEPT !.confused = @ \/ b]]
      BY <1>3 DEF Tables, ServerType
    <3> HIDE DEF C
    <3>2. C.server[f] = [s EXCEPT !.confused = @ \/ b] /\ C.server[f].view = s.view
      BY <1>0, <1>3, <3>1 DEF Tables, ServerType
    <3>3. N = [C EXCEPT !.server[f].view = w]
      BY <2>1, <3>2 DEF Viewed
    <3> HIDE DEF w
    <3>4. N = [V EXCEPT !.server[f] = [[s EXCEPT !.confused = @ \/ b] EXCEPT !.view = w]]
      BY <1>0, <1>3, <3>1, <3>3, ZenonT(30) DEF Tables, ServerType
    <3> QED
      BY <3>4
  <2>6. /\ q \in ServerType
        /\ q.state = s.state
        /\ q.open_docs = s.open_docs
        /\ q.mru_docs = s.mru_docs
        /\ q.view = w
    <3> HIDE DEF b, w
    <3> QED
      BY <1>0, <2>4 DEF ServerType
  <2>7. ~b => (q.confused <=> s.confused)
    <3> HIDE DEF b, w
    <3> QED
      BY <1>0, <2>4 DEF ServerType
  <2>8. s.view[u].version = M.doc[d].version => ~b
    BY <1>1, <1>3
  <2> HIDE DEF b, w, q
  <2>9. /\ N \in Tables
        /\ N.doc = V.doc
        /\ N.server[f] = q
        /\ \A g \in Ft \ {f} : N.server[g] = V.server[g]
    BY <1>3, <2>5, <2>6 DEF Tables
  <2>10. Sound(N)
    BY <1>0, <1>3, <1>4, <2>6, <2>9 DEF Sound, Books
  <2>11. DOMAIN q.view = DOMAIN s.view
    BY <1>6, <2>4, <2>6 DEF u
  <2>12. s.view[u].version = M.doc[d].version => (q.confused <=> s.confused)
    BY <2>7, <2>8
  <2>13. q.view[u] = [text |-> Changed(M, f, d, t), version |-> M.doc[d].version + 1]
    BY <1>1, <2>4, <2>6 DEF k
  <2>14. \A x \in DOMAIN s.view \ {u} : q.view[x] = s.view[x]
    BY <2>4, <2>6
  <2>15. N.doc[d] = [M.doc[d] EXCEPT !.version = @ + 1]
    BY <1>3, <2>9 DEF r
  <2>16. \A e \in Doc \ {d} : N.doc[e] = M.doc[e]
    BY <1>3, <2>9
  <2>17. \A g \in Ft \ {f} : N.server[g] = M.server[g]
    BY <1>3, <2>9
  <2> QED
    BY <2>6, <2>9, <2>10, <2>11, <2>12, <2>13, <2>14, <2>15, <2>16, <2>17
       DEF N, u, ChangeTold
<1> QED
  BY <1>5, <1>6

-----------------------------------------------------------------------------
(* lsp-main.c *)

\* A handler for d changes no other document and opens and closes none.
Handled(N, M, d) ==
    /\ Sound(N)
    /\ Honest(M) => Honest(N)
    /\ N.doc[d].open = M.doc[d].open
    /\ \A e \in Doc \ {d} : N.doc[e] = M.doc[e]

SetText(M, d, x) == [M EXCEPT !.doc[d].text = x, !.doc[d].changed = TRUE]

\* The text of d changes.
LEMMA TextSet ==
    ASSUME NEW M, NEW d \in Doc, Sound(M), M.doc[d].open, NEW x \in Text
    PROVE  LET E == SetText(M, d, x) IN
           /\ Sound(E)
           /\ E.server = M.server
           /\ \A e \in Doc \ {d} : E.doc[e] = M.doc[e]
           /\ E.doc[d].open
           /\ E.doc[d].path = M.doc[d].path
           /\ E.doc[d].cached_ft = M.doc[d].cached_ft
           /\ E.doc[d].version = M.doc[d].version
           /\ E.doc[d].text = x
<1> DEFINE r == [M.doc[d] EXCEPT !.text = x, !.changed = TRUE]
           E == SetText(M, d, x)
<1>0. M \in Tables /\ M.doc[d] \in DocType
  BY TablesType DEF Sound
<1>1. /\ r \in DocType
      /\ r.open = M.doc[d].open
      /\ r.path = M.doc[d].path
      /\ r.cached_ft = M.doc[d].cached_ft
      /\ r.version = M.doc[d].version
      /\ r.text = x
  BY <1>0 DEF DocType
<1>2. E = [M EXCEPT !.doc[d] = r]
  BY <1>0 DEF Tables, SetText
<1> HIDE DEF r, E
<1>3. /\ E \in Tables
      /\ E.server = M.server
      /\ E.doc[d] = r
      /\ \A e \in Doc \ {d} : E.doc[e] = M.doc[e]
  BY <1>0, <1>1, <1>2 DEF Tables
<1>4. Sound(E)
  BY <1>1, <1>3 DEF Sound
<1> QED
  BY <1>1, <1>3, <1>4 DEF E

\* Only d changes from B to E, and the server of f, where d is open, knows what d is now.
Told(E, B, f, d) ==
    /\ \A e \in Doc \ {d} : E.doc[e] = B.doc[e]
    /\ E.doc[d].open
    /\ E.doc[d].path = B.doc[d].path
    /\ E.doc[d].cached_ft = B.doc[d].cached_ft
    /\ \A g \in Ft \ {f} : E.server[g] = B.server[g]
    /\ E.server[f].state = B.server[f].state
    /\ E.server[f].open_docs = B.server[f].open_docs
    /\ E.server[f].confused <=> B.server[f].confused
    /\ DOMAIN E.server[f].view = DOMAIN B.server[f].view
    /\ E.server[f].view[UriOf(B, d)] =
           [text |-> E.doc[d].text, version |-> E.doc[d].version]
    /\ \A x \in DOMAIN B.server[f].view \ {UriOf(B, d)} :
           E.server[f].view[x] = B.server[f].view[x]

LEMMA EditedHonest ==
    ASSUME NEW B, NEW E, NEW f \in Ft, NEW d \in Doc,
           Sound(B), Sound(E), Honest(B), d \in B.server[f].open_docs, Told(E, B, f, d)
    PROVE  Honest(E)
<1> USE DEF Told
<1>1. ASSUME NEW e \in Doc PROVE GotServer(E, e) = GotServer(B, e)
  <2>1. E.doc[e].path = B.doc[e].path /\ E.doc[e].cached_ft = B.doc[e].cached_ft
    OBVIOUS
  <2>2. \A g \in Ft : Running(E, g) <=> Running(B, g)
    BY DEF Running
  <2> QED
    BY <2>1, <2>2, SameServer
<1>2. \A e \in Doc : UriOf(E, e) = UriOf(B, e) /\ E.doc[e].path = B.doc[e].path
  BY DEF UriOf
<1>3. \A e \in Doc \ {d} : UriOf(E, e) # UriOf(B, d)
  BY DEF UriOf
<1>4. ASSUME NEW g \in Ft, NEW e \in E.server[g].open_docs PROVE Knows(E, g, e)
  <2>1. e \in Doc /\ e \in B.server[g].open_docs /\ Knows(B, g, e)
    BY TablesType DEF Sound, ServerType, Honest
  <2>2. CASE g # f
    <3>1. e # d
      BY <2>1, <2>2 DEF Honest, Knows
    <3> QED
      BY <1>1, <1>2, <2>1, <2>2, <3>1 DEF Knows
  <2>3. CASE g = f /\ e = d
    BY <1>1, <1>2, <2>1, <2>3 DEF Knows
  <2>4. CASE g = f /\ e # d
    <3>1. E.server[f].view[UriOf(E, e)] = B.server[f].view[UriOf(B, e)]
      BY <1>2, <1>3, <2>1, <2>4 DEF Knows
    <3> QED
      BY <1>1, <1>2, <2>1, <2>4, <3>1 DEF Knows
  <2> QED
    BY <2>2, <2>3, <2>4
<1>5. ASSUME NEW g \in Ft, NEW x \in DOMAIN E.server[g].view
      PROVE  x[1] \in E.server[g].open_docs /\ x[2] = E.doc[x[1]].path
  <2>1. x[1] \in B.server[g].open_docs /\ x[2] = B.doc[x[1]].path
    BY DEF Honest, KnowsOnly
  <2>2. x[1] \in Doc
    BY <2>1, TablesType DEF Sound, ServerType
  <2> QED
    BY <1>2, <2>1, <2>2
<1>6. \A g \in Ft : ~E.server[g].confused
  BY DEF Honest
<1> QED
  BY <1>4, <1>5, <1>6 DEF Honest, KnowsOnly

LEMMA HandledTwice ==
    ASSUME NEW N, NEW C, NEW M, NEW d, Handled(N, C, d), Handled(C, M, d)
    PROVE  Handled(N, M, d)
BY DEF Handled

\* A document is open at the server that serves it, or nowhere.
LEMMA ServedOnce ==
    ASSUME NEW M, NEW d \in Doc, Honest(M)
    PROVE  /\ \A g \in Ft : d \in M.server[g].open_docs => GotServer(M, d) = g
           /\ GotServer(M, d) = NULL => Unopened(M, d)
<1>1. \A g \in Ft : d \in M.server[g].open_docs => GotServer(M, d) = g
  BY DEF Honest, Knows
<1>2. GotServer(M, d) = NULL => Unopened(M, d)
  BY <1>1 DEF Unopened
<1> QED
  BY <1>1, <1>2

\* The server of d knows the text t that d has.
LEMMA KnowsText ==
    ASSUME NEW B, NEW f \in Ft, NEW d \in B.server[f].open_docs, Honest(B)
    PROVE  /\ UriOf(B, d) \in DOMAIN B.server[f].view
           /\ B.server[f].view[UriOf(B, d)].version = B.doc[d].version
           /\ B.server[f].view[UriOf(B, d)].text = B.doc[d].text
<1>1. Knows(B, f, d)
  BY DEF Honest
<1> QED
  BY <1>1 DEF Knows

LEMMA EarlyKept ==
    ASSUME NEW B, NEW f \in Incremental, NEW d \in Doc, Sound(B),
           B.doc[d].open, d \in B.server[f].open_docs,
           NEW t \in Nat, t = B.doc[d].text, NEW x \in Text, x = t + 1
    PROVE  Handled(SetText(DidChange(B, f, d, t), d, x), B, d)
<1> DEFINE C == DidChange(B, f, d, t)
           E == SetText(C, d, x)
           u == UriOf(B, d)
           c == C.server[f]
           s == B.server[f]
<1>0. f \in Ft /\ B.doc[d] \in DocType
  BY TablesType DEF Sound
<1>1. /\ Sound(C)
      /\ \A e \in Doc \ {d} : C.doc[e] = B.doc[e]
      /\ C.doc[d] = [B.doc[d] EXCEPT !.version = @ + 1]
      /\ \A g \in Ft \ {f} : C.server[g] = B.server[g]
      /\ c.state = s.state
      /\ c.open_docs = s.open_docs
      /\ u \in DOMAIN s.view /\ s.view[u].version = B.doc[d].version =>
            /\ c.confused <=> s.confused
            /\ DOMAIN c.view = DOMAIN s.view
            /\ c.view[u] = [text |-> Changed(B, f, d, t), version |-> B.doc[d].version + 1]
            /\ \A y \in DOMAIN s.view \ {u} : c.view[y] = s.view[y]
  <2>1. ChangeTold(C, B, f, d, t)
    BY <1>0, DidChangeKept
  <2> HIDE DEF C
  <2> QED BY <2>1, Zenon DEF ChangeTold
<1> HIDE DEF C
<1>2. /\ C.doc[d].open
      /\ C.doc[d].path = B.doc[d].path
      /\ C.doc[d].cached_ft = B.doc[d].cached_ft
      /\ C.doc[d].version = B.doc[d].version + 1
  BY <1>0, <1>1, NextVersionType
<1>6. Sound(C) /\ C.doc[d].open
  BY <1>1, <1>2
<1>3. /\ Sound(E)
      /\ E.server = C.server
      /\ \A e \in Doc \ {d} : E.doc[e] = C.doc[e]
      /\ E.doc[d].open
      /\ E.doc[d].path = C.doc[d].path
      /\ E.doc[d].cached_ft = C.doc[d].cached_ft
      /\ E.doc[d].version = C.doc[d].version
      /\ E.doc[d].text = x
  BY <1>6, TextSet
<1> HIDE DEF E
<1>4. ASSUME Honest(B) PROVE Honest(E)
  <2>1. /\ u \in DOMAIN s.view
        /\ s.view[u].version = B.doc[d].version
        /\ Changed(B, f, d, t) = x
    BY <1>0, <1>4, KnowsText DEF Changed
  <2>2. E.server[f].confused <=> s.confused
    BY <1>1, <1>3, <2>1
  <2>3. E.server[f].view[u] = [text |-> x, version |-> B.doc[d].version + 1]
    BY <1>1, <1>3, <2>1
  <2>4. Told(E, B, f, d)
    BY <1>1, <1>2, <1>3, <2>1, <2>2, <2>3 DEF Told
  <2> QED
    BY <1>0, <1>3, <1>4, <2>4, EditedHonest
<1>5. E.doc[d].open = B.doc[d].open
  BY <1>0, <1>3, TablesType DEF Sound, DocType
<1>7. Handled(E, B, d)
  BY <1>1, <1>3, <1>4, <1>5 DEF Handled
<1> QED
  BY <1>7 DEF E, C

LEMMA LateKept ==
    ASSUME NEW B, NEW f \in Ft, NEW d \in Doc, Sound(B),
           B.doc[d].open, d \in B.server[f].open_docs,
           NEW t \in Nat, t = B.doc[d].text, NEW x \in Text, x = t + 1
    PROVE  Handled(DidChange(SetText(B, d, x), f, d, t), B, d)
<1> DEFINE E == SetText(B, d, x)
           N == DidChange(E, f, d, t)
           u == UriOf(B, d)
           c == N.server[f]
           s == B.server[f]
<1>0. B.doc[d] \in DocType
  BY TablesType DEF Sound
<1>1. /\ Sound(E)
      /\ E.server = B.server
      /\ \A e \in Doc \ {d} : E.doc[e] = B.doc[e]
      /\ E.doc[d].open
      /\ E.doc[d].path = B.doc[d].path
      /\ E.doc[d].cached_ft = B.doc[d].cached_ft
      /\ E.doc[d].version = B.doc[d].version
      /\ E.doc[d].text = x
  BY TextSet
<1> HIDE DEF E
<1>2. UriOf(E, d) = u /\ E.doc[d] \in DocType
  BY <1>1, TablesType DEF UriOf, Sound
<1>3. /\ Sound(N)
      /\ \A e \in Doc \ {d} : N.doc[e] = E.doc[e]
      /\ N.doc[d] = [E.doc[d] EXCEPT !.version = @ + 1]
      /\ \A g \in Ft \ {f} : N.server[g] = E.server[g]
      /\ c.state = s.state
      /\ c.open_docs = s.open_docs
      /\ u \in DOMAIN s.view /\ s.view[u].version = B.doc[d].version =>
            /\ c.confused <=> s.confused
            /\ DOMAIN c.view = DOMAIN s.view
            /\ c.view[u] = [text |-> Changed(E, f, d, t), version |-> B.doc[d].version + 1]
            /\ \A y \in DOMAIN s.view \ {u} : c.view[y] = s.view[y]
  <2>1. ChangeTold(N, E, f, d, t)
    BY <1>1, DidChangeKept
  <2>2. E.server[f] = s /\ E.doc[d].version = B.doc[d].version
    BY <1>1
  <2> HIDE DEF N
  <2> QED BY <1>1, <1>2, <2>1, <2>2 DEF ChangeTold
<1> HIDE DEF N
<1>4. /\ N.doc[d].open
      /\ N.doc[d].path = B.doc[d].path
      /\ N.doc[d].cached_ft = B.doc[d].cached_ft
      /\ N.doc[d].version = B.doc[d].version + 1
      /\ N.doc[d].text = x
  BY <1>1, <1>2, <1>3, NextVersionType
<1>5. ASSUME Honest(B) PROVE Honest(N)
  <2>1. /\ u \in DOMAIN s.view
        /\ s.view[u].version = B.doc[d].version
        /\ s.view[u].text = t
    BY <1>5, KnowsText
  <2>2. Changed(E, f, d, t) = x
    BY <1>1, <1>2, <2>1 DEF Changed
  <2>3. c.confused <=> s.confused
    BY <1>3, <2>1
  <2>4. c.view[u] = [text |-> x, version |-> B.doc[d].version + 1]
    BY <1>3, <2>1, <2>2
  <2>5. Told(N, B, f, d)
    BY <1>1, <1>3, <1>4, <2>1, <2>3, <2>4 DEF Told
  <2> QED
    BY <1>3, <1>5, <2>5, EditedHonest
<1>6. N.doc[d].open = B.doc[d].open
  BY <1>0, <1>3, <1>4, TablesType DEF Sound, DocType
<1>7. \A e \in Doc \ {d} : N.doc[e] = B.doc[e]
  BY <1>1, <1>3
<1>8. Handled(N, B, d)
  BY <1>3, <1>5, <1>6, <1>7 DEF Handled
<1> QED
  BY <1>8 DEF E, N

LEMMA GetHandled ==
    ASSUME NEW M, NEW d \in Doc, Sound(M), M.doc[d].open
    PROVE  Handled(Get(M, d), M, d)
<1> DEFINE G == Get(M, d)
<1>1. /\ Sound(G)
      /\ Honest(M) => Honest(G)
      /\ SameDoc(G.doc[d], M, d)
      /\ \A e \in Doc \ {d} : G.doc[e] = M.doc[e]
  BY GetKept
<1> HIDE DEF G
<1>2. G.doc[d].open = M.doc[d].open
  BY <1>1 DEF SameDoc
<1>3. Handled(G, M, d)
  BY <1>1, <1>2 DEF Handled
<1> QED
  BY <1>3 DEF G

\* A document that is served is opened, and is served by the same server then.
LEMMA DidOpenHandled ==
    ASSUME NEW M, NEW f \in Ft, NEW d \in Doc, Sound(M), M.doc[d].open, GotServer(M, d) = f
    PROVE  LET N == DidOpen(M, f, d) IN
           /\ Handled(N, M, d)
           /\ \A e \in Doc : GotServer(N, e) = GotServer(M, e)
           /\ GotServer(N, d) = f
           /\ d \in N.server[f].open_docs
           /\ N.doc[d].text = M.doc[d].text
<1> DEFINE N == DidOpen(M, f, d)
<1>0. M.doc[d].path # NULL /\ M.doc[d] \in DocType
  BY GotServerType, TablesType DEF Sound
<1>1. OpenedAt(N, M, f, d) /\ (Honest(M) => Honest(N))
  BY <1>0, DidOpenKept
<1> HIDE DEF N
<1>2. PICK version \in Nat : N.doc[d] = [M.doc[d] EXCEPT !.version = version]
  BY <1>1 DEF OpenedAt
<1>3. /\ N.doc[d].open = M.doc[d].open
      /\ N.doc[d].path = M.doc[d].path
      /\ N.doc[d].cached_ft = M.doc[d].cached_ft
      /\ N.doc[d].text = M.doc[d].text
  BY <1>0, <1>2 DEF DocType
<1>4. /\ Sound(N)
      /\ \A e \in Doc \ {d} : N.doc[e] = M.doc[e]
      /\ \A g \in Ft : N.server[g].state = M.server[g].state
      /\ d \in N.server[f].open_docs
  BY <1>1 DEF OpenedAt
<1>5. \A g \in Ft : Running(N, g) <=> Running(M, g)
  BY <1>4 DEF Running
<1>6. ASSUME NEW e \in Doc PROVE GotServer(N, e) = GotServer(M, e)
  <2>1. N.doc[e].path = M.doc[e].path /\ N.doc[e].cached_ft = M.doc[e].cached_ft
    BY <1>3, <1>4
  <2> QED
    BY <1>5, <2>1, SameServer
<1>7. Handled(N, M, d)
  BY <1>1, <1>3, <1>4 DEF Handled
<1> QED
  BY <1>3, <1>4, <1>6, <1>7 DEF N

LEMMA DidSaveHandled ==
    ASSUME NEW M, NEW f \in Ft, NEW d \in Doc, Sound(M), d \in M.server[f].open_docs
    PROVE  LET N == DidSave(M, f, d) IN
           /\ Handled(N, M, d)
           /\ GotServer(N, d) = GotServer(M, d)
<1> DEFINE N == DidSave(M, f, d)
<1>1. /\ Sound(N)
      /\ N.doc = M.doc
      /\ \A g \in Ft : N.server[g].state = M.server[g].state
      /\ Honest(M) => Honest(N)
  BY DidSaveKept
<1> HIDE DEF N
<1>2. GotServer(N, d) = GotServer(M, d)
  <2>1. \A g \in Ft : Running(N, g) <=> Running(M, g)
    BY <1>1 DEF Running
  <2> QED
    BY <1>1, <2>1, SameServer
<1>3. Handled(N, M, d)
  BY <1>1 DEF Handled
<1> QED
  BY <1>2, <1>3 DEF N

\* Whether a change is told before or after the text changes, the server has the new text.
LEMMA ModifiedKept ==
    ASSUME NEW M, NEW d \in Doc, NEW kind, Sound(M), M.doc[d].open, M.doc[d].text < MaxText
    PROVE  Handled(Modified(M, d, kind), M, d)
<1> DEFINE G == Get(M, d)
           f == GotServer(G, d)
           t == M.doc[d].text
           x == t + 1
           B == DidOpen(G, f, d)
           E == DidChange(B, f, d, t)
           N == Modified(M, d, kind)
<1>1. N = IF f = NULL THEN SetText(G, d, x)
          ELSE IF kind = "delete" /\ f \in Incremental THEN SetText(E, d, x)
          ELSE DidChange(SetText(B, d, x), f, d, t)
  <2>1. CASE f = NULL
    BY <2>1 DEF Modified, SetText
  <2>2. CASE f # NULL /\ kind = "delete" /\ f \in Incremental
    BY <2>2 DEF Modified, SetText
  <2>3. CASE f # NULL /\ ~(kind = "delete" /\ f \in Incremental)
    <3> DEFINE C == IF kind = "delete" /\ f \in Incremental THEN E ELSE B
    <3>1. N = IF f = NULL THEN SetText(G, d, x)
              ELSE IF kind = "delete" /\ f \in Incremental THEN SetText(C, d, x)
              ELSE DidChange(SetText(C, d, x), f, d, t)
      BY DEF Modified, SetText
    <3>2. C = B
      BY <2>3
    <3> HIDE DEF C, N, B
    <3> QED
      BY <2>3, <3>1, <3>2
  <2> QED
    BY <2>1, <2>2, <2>3
<1>2. t \in Nat /\ x \in Text /\ x = t + 1
  <2>1. t \in Text
    BY TablesType DEF Sound, DocType
  <2> QED
    BY <2>1 DEF Text
<1>3. Handled(G, M, d)
  BY GetHandled
<1>4. f \in Ft \cup {NULL}
  BY GotServerType
<1>5. G.doc[d].text = t
  BY GetKept DEF SameDoc
<1> SUFFICES Handled(N, M, d)
  BY DEF N
<1> HIDE DEF G, N, x
<1>6. Sound(G) /\ G.doc[d].open
  BY <1>3 DEF Handled
<1>7. CASE f = NULL
  <2> DEFINE F == SetText(G, d, x)
  <2>1. /\ Sound(F)
        /\ F.server = G.server
        /\ \A e \in Doc \ {d} : F.doc[e] = G.doc[e]
        /\ F.doc[d].open
    BY <1>2, <1>6, TextSet
  <2> HIDE DEF F
  <2>2. Honest(G) => Unopened(G, d)
    BY <1>7, ServedOnce
  <2>3. F \in Tables
    BY <2>1 DEF Sound
  <2>4. Honest(G) => Honest(F)
    BY <1>6, <2>1, <2>2, <2>3, DocChanged
  <2>5. F.doc[d].open = G.doc[d].open
    BY <1>6, <2>1, TablesType DEF Sound, DocType
  <2>6. Handled(F, G, d)
    BY <2>1, <2>4, <2>5 DEF Handled
  <2>7. N = F
    BY <1>1, <1>7 DEF F
  <2> QED
    BY <1>3, <2>6, <2>7, HandledTwice
<1>8. CASE f \in Ft
  <2>1. /\ Handled(B, G, d)
        /\ d \in B.server[f].open_docs
        /\ B.doc[d].text = t
    BY <1>5, <1>6, <1>8, DidOpenHandled
  <2> HIDE DEF B, t, f
  <2>2. Sound(B) /\ B.doc[d].open
    BY <1>6, <2>1 DEF Handled
  <2>3. CASE kind = "delete" /\ f \in Incremental
    <3>1. Handled(SetText(DidChange(B, f, d, t), d, x), B, d)
      BY <1>2, <2>1, <2>2, <2>3, EarlyKept
    <3>2. N = SetText(DidChange(B, f, d, t), d, x)
      BY <1>1, <1>8, <2>3
    <3> QED
      BY <1>3, <2>1, <3>1, <3>2, HandledTwice
  <2>4. CASE ~(kind = "delete" /\ f \in Incremental)
    <3>1. Handled(DidChange(SetText(B, d, x), f, d, t), B, d)
      BY <1>2, <1>8, <2>1, <2>2, LateKept
    <3>2. N = DidChange(SetText(B, d, x), f, d, t)
      BY <1>1, <1>8, <2>4
    <3> QED
      BY <1>3, <2>1, <3>1, <3>2, HandledTwice
  <2> QED
    BY <2>3, <2>4
<1> QED
  BY <1>4, <1>7, <1>8

LEMMA SaveFinishKept ==
    ASSUME NEW M, NEW f \in Ft, NEW d \in Doc, Sound(M), M.doc[d].open, GotServer(M, d) = f
    PROVE  LET N == SaveFinish(M, f, d) IN
           /\ Handled(N, M, d)
           /\ GotServer(N, d) = f
<1> DEFINE r == [M.doc[d] EXCEPT !.marked = FALSE, !.changed = FALSE]
           U == [M EXCEPT !.doc[d].marked = FALSE, !.doc[d].changed = FALSE]
           B == DidOpen(U, f, d)
           N == SaveFinish(M, f, d)
<1>0. M \in Tables /\ M.doc[d] \in DocType
  BY TablesType DEF Sound
<1>1. N = IF ~M.doc[d].marked THEN M
          ELSE IF M.doc[d].changed THEN DidSave(B, f, d) ELSE U
  BY DEF SaveFinish
<1>2. /\ r \in DocType
      /\ r.open = M.doc[d].open
      /\ r.path = M.doc[d].path
      /\ r.text = M.doc[d].text
      /\ r.version = M.doc[d].version
      /\ r.cached_ft = M.doc[d].cached_ft
  BY <1>0 DEF DocType
<1>3. U = [M EXCEPT !.doc[d] = r]
  BY <1>0 DEF Tables
<1> HIDE DEF r, U
<1>4. /\ U \in Tables
      /\ U.server = M.server
      /\ U.doc[d] = r
      /\ \A e \in Doc \ {d} : U.doc[e] = M.doc[e]
  BY <1>0, <1>2, <1>3 DEF Tables
<1>5. Sound(U) /\ (Honest(M) => Honest(U))
  BY <1>2, <1>4, DocChanged
<1>6. U.doc[d].open /\ Handled(U, M, d)
  BY <1>2, <1>4, <1>5 DEF Handled
<1>7. GotServer(U, d) = f
  <2>1. \A g \in Ft : Running(U, g) <=> Running(M, g)
    BY <1>4 DEF Running
  <2> QED
    BY <1>2, <1>4, <2>1, SameServer
<1>8. Handled(B, U, d) /\ GotServer(B, d) = f /\ d \in B.server[f].open_docs
  BY <1>5, <1>6, <1>7, DidOpenHandled
<1> SUFFICES Handled(N, M, d) /\ GotServer(N, d) = f
  BY DEF N
<1> HIDE DEF B, N
<1>9. Sound(B)
  BY <1>8 DEF Handled
<1>10. Handled(DidSave(B, f, d), B, d) /\ GotServer(DidSave(B, f, d), d) = f
  BY <1>8, <1>9, DidSaveHandled
<1>11. Handled(DidSave(B, f, d), M, d)
  BY <1>6, <1>8, <1>10, HandledTwice
<1>12. Handled(M, M, d)
  BY DEF Handled
<1> QED
  BY <1>1, <1>6, <1>7, <1>10, <1>11, <1>12

\* on_document_visible() leaves d open at its server.
LEMMA VisibleKept ==
    ASSUME NEW M, NEW d \in Doc, Sound(M), M.doc[d].open
    PROVE  LET N == Visible(M, d)
               f == GotServer(Get(M, d), d)
           IN /\ Handled(N, M, d)
              /\ f # NULL => d \in N.server[f].open_docs
              /\ GotServer(N, d) = f
<1> DEFINE G == Get(M, d)
           f == GotServer(G, d)
           S == SaveFinish(G, f, d)
           N == Visible(M, d)
<1>1. N = IF f = NULL THEN G ELSE DidOpen(S, f, d)
  BY DEF Visible
<1>2. Handled(G, M, d)
  BY GetHandled
<1>3. f \in Ft \cup {NULL}
  BY GotServerType
<1> HIDE DEF N, G
<1> SUFFICES /\ Handled(N, M, d)
             /\ f # NULL => d \in N.server[f].open_docs
             /\ GotServer(N, d) = f
  BY DEF N, G
<1>4. CASE f = NULL
  BY <1>1, <1>2, <1>4
<1>5. CASE f \in Ft
  <2>1. Sound(G) /\ G.doc[d].open
    BY <1>2 DEF Handled
  <2>2. Handled(S, G, d) /\ GotServer(S, d) = f
    BY <1>5, <2>1, SaveFinishKept
  <2>3. Sound(S) /\ S.doc[d].open
    BY <2>1, <2>2 DEF Handled
  <2> HIDE DEF S, f
  <2>4. /\ Handled(DidOpen(S, f, d), S, d)
        /\ GotServer(DidOpen(S, f, d), d) = f
        /\ d \in DidOpen(S, f, d).server[f].open_docs
    BY <1>5, <2>2, <2>3, DidOpenHandled
  <2>5. Handled(DidOpen(S, f, d), M, d)
    BY <1>2, <2>2, <2>4, HandledTwice
  <2>6. N = DidOpen(S, f, d)
    BY <1>1, <1>5
  <2> QED
    BY <2>4, <2>5, <2>6
<1> QED
  BY <1>3, <1>4, <1>5

\* The filetype that is kept with a document answers again.
LEMMA GetAgain ==
    ASSUME NEW M, NEW d \in Doc, Sound(M), M.doc[d].open, M.doc[d].cached_ft # NULL
    PROVE  GotServer(Get(M, d), d) = GotServer(M, d)
<1> DEFINE G == Get(M, d)
<1>1. SameServers(G, M) /\ SameDoc(G.doc[d], M, d)
  BY GetKept
<1> HIDE DEF G
<1>2. \A g \in Ft : Running(G, g) <=> Running(M, g)
  BY <1>1 DEF SameServers
<1>3. G.doc[d].path = M.doc[d].path /\ G.doc[d].cached_ft = M.doc[d].cached_ft
  BY <1>1 DEF SameDoc
<1>4. GotServer(G, d) = GotServer(M, d)
  BY <1>2, <1>3, SameServer
<1> QED
  BY <1>4 DEF G

LEMMA SavedKept ==
    ASSUME NEW M, NEW d \in Doc, Sound(M), M.doc[d].open
    PROVE  Handled(Saved(M, d), M, d)
<1> DEFINE G == Get(M, d)
           f == GotServer(G, d)
           V == Visible(G, d)
           B == IF d \in G.server[f].open_docs THEN G ELSE V
           N == Saved(M, d)
<1>1. N = IF f = NULL THEN G ELSE DidSave(B, f, d)
  BY DEF Saved
<1>2. Handled(G, M, d)
  BY GetHandled
<1>3. f \in Ft \cup {NULL}
  BY GotServerType
<1>4. G.doc[d].cached_ft # NULL
  BY GetKept
<1> HIDE DEF N, G
<1> SUFFICES Handled(N, M, d)
  BY DEF N
<1>5. Sound(G) /\ G.doc[d].open
  BY <1>2 DEF Handled
<1>6. CASE f = NULL
  BY <1>1, <1>2, <1>6
<1>7. CASE f \in Ft
  <2>1. f # NULL
    BY <1>7
  <2>2. GotServer(Get(G, d), d) = f
    BY <1>4, <1>5, GetAgain
  <2>3. Handled(V, G, d) /\ d \in V.server[f].open_docs
    BY <1>5, <2>1, <2>2, VisibleKept
  <2> HIDE DEF f, V
  <2>4. Handled(B, G, d) /\ d \in B.server[f].open_docs
    BY <1>5, <2>3 DEF Handled
  <2> HIDE DEF B
  <2>5. Sound(B)
    BY <2>4 DEF Handled
  <2>6. Handled(DidSave(B, f, d), B, d)
    BY <1>7, <2>4, <2>5, DidSaveHandled
  <2>7. Handled(DidSave(B, f, d), M, d)
    BY <1>2, <2>4, <2>6, HandledTwice
  <2> QED
    BY <1>1, <2>1, <2>7
<1> QED
  BY <1>3, <1>6, <1>7

\* What Honest(M) says of the other documents, while d may be open at a server that does
\* not serve it any more.
HonestBut(M, d) ==
    \A f \in Ft :
        /\ ~M.server[f].confused
        /\ \A e \in M.server[f].open_docs \ {d} : Knows(M, f, e)
        /\ d \in M.server[f].open_docs => UriOf(M, d) \in DOMAIN M.server[f].view
        /\ KnowsOnly(M, f)

LEMMA HonestButIs ==
    ASSUME NEW M, NEW d
    PROVE  /\ Honest(M) => HonestBut(M, d)
           /\ /\ HonestBut(M, d)
              /\ \A f \in Ft : d \in M.server[f].open_docs => Knows(M, f, d)
              => Honest(M)
<1>1. Honest(M) => HonestBut(M, d)
  BY DEF Honest, HonestBut, Knows
<1>2. ASSUME HonestBut(M, d),
             \A f \in Ft : d \in M.server[f].open_docs => Knows(M, f, d)
      PROVE  Honest(M)
  BY <1>2 DEF Honest, HonestBut
<1> QED
  BY <1>1, <1>2

\* Which server serves d, and which servers run, may change.
LEMMA HonestButKept ==
    ASSUME NEW M, NEW N, NEW d \in Doc, Sound(M), Sound(N), HonestBut(M, d),
           SameServers(N, M), N.doc[d].path = M.doc[d].path,
           \A e \in Doc \ {d} : N.doc[e] = M.doc[e]
    PROVE  HonestBut(N, d)
<1>1. \A e \in Doc : N.doc[e].path = M.doc[e].path /\ UriOf(N, e) = UriOf(M, e)
  BY DEF UriOf
<1>2. \A f \in Ft : N.server[f].open_docs \subseteq Doc /\ M.server[f].open_docs \subseteq Doc
  BY TablesType DEF Sound, ServerType
<1>3. ASSUME NEW f \in Ft, NEW e \in N.server[f].open_docs \ {d} PROVE Knows(N, f, e)
  <2>1. Knows(M, f, e) /\ e \in Doc \ {d}
    BY <1>2 DEF HonestBut, SameServers
  <2>2. GotServer(N, e) = GotServer(M, e)
    BY <2>1, SameServer DEF SameServers
  <2> QED
    BY <1>1, <2>1, <2>2 DEF Knows, SameServers
<1>4. ASSUME NEW f \in Ft PROVE KnowsOnly(N, f)
  <2>1. KnowsOnly(M, f)
    BY DEF HonestBut
  <2> QED
    BY <1>1, <1>2, <2>1 DEF KnowsOnly, SameServers
<1>5. ASSUME NEW f \in Ft, d \in N.server[f].open_docs
      PROVE  UriOf(N, d) \in DOMAIN N.server[f].view
  BY <1>1, <1>5 DEF HonestBut, SameServers
<1>6. \A f \in Ft : ~N.server[f].confused
  BY DEF HonestBut, SameServers
<1> QED
  BY <1>3, <1>4, <1>5, <1>6 DEF HonestBut

LEMMA DidCloseBut ==
    ASSUME NEW M, NEW f \in Ft, NEW d \in Doc, Sound(M), HonestBut(M, d)
    PROVE  HonestBut(DidClose(M, f, d), d)
<1> DEFINE N == DidClose(M, f, d)
           s == M.server[f]
           u == UriOf(M, d)
<1>0. M \in Tables /\ s \in ServerType /\ Books(s)
  BY TablesType DEF Sound
<1>1. /\ N.doc = M.doc
      /\ \A g \in Ft \ {f} : N.server[g] = M.server[g]
      /\ N.server[f].state = s.state
      /\ N.server[f].open_docs = s.open_docs \ {d}
      /\ d \in s.open_docs => N.server[f] = ClosedServer(s, d, u)
      /\ d \notin s.open_docs =>
            /\ N.server[f].view = s.view
            /\ N.server[f].confused = s.confused
  BY DidCloseKept
<1> HIDE DEF N
<1>2. ASSUME NEW e PROVE GotServer(N, e) = GotServer(M, e)
  BY <1>1, SameServer DEF Running
<1> DEFINE Half(g) == /\ ~N.server[g].confused
                      /\ \A e \in N.server[g].open_docs \ {d} : Knows(N, g, e)
                      /\ d \in N.server[g].open_docs => UriOf(N, d) \in DOMAIN N.server[g].view
                      /\ KnowsOnly(N, g)
<1>3. ASSUME NEW g \in Ft \ {f} PROVE Half(g)
  BY <1>1, <1>2 DEF HonestBut, Knows, KnowsOnly, UriOf
<1>4. Half(f)
  <2>1. CASE d \notin s.open_docs
    BY <1>1, <1>2, <2>1 DEF HonestBut, Knows, KnowsOnly, UriOf
  <2>2. CASE d \in s.open_docs
    <3> DEFINE c == ClosedServer(s, d, u)
    <3>1. /\ N.server[f] = c
          /\ c.open_docs = s.open_docs \ {d}
          /\ DOMAIN c.view = DOMAIN s.view \ {u}
          /\ \A x \in DOMAIN c.view : c.view[x] = s.view[x]
          /\ c.confused <=> s.confused \/ u \notin DOMAIN s.view
      BY <1>0, <1>1, <2>2, ClosedServerType
    <3> HIDE DEF c
    <3>2. ~N.server[f].confused
      BY <2>2, <3>1 DEF HonestBut
    <3>3. ASSUME NEW e \in N.server[f].open_docs \ {d} PROVE Knows(N, f, e)
      <4>1. e # d /\ Knows(M, f, e)
        BY <3>1 DEF HonestBut
      <4>2. UriOf(N, e) = UriOf(M, e) /\ UriOf(M, e) # u
        BY <1>1, <4>1 DEF UriOf
      <4> QED
        BY <1>1, <1>2, <3>1, <4>1, <4>2 DEF Knows
    <3>4. ASSUME NEW x \in DOMAIN N.server[f].view
          PROVE  x[1] \in N.server[f].open_docs /\ x[2] = N.doc[x[1]].path
      <4>1. x \in DOMAIN s.view /\ x # u /\ x[1] \in s.open_docs /\ x[2] = M.doc[x[1]].path
        BY <3>1 DEF HonestBut, KnowsOnly
      <4>2. x \in Uri
        BY <1>0, <4>1 DEF ServerType, View
      <4>3. x[1] # d
        BY <4>1, <4>2 DEF UriOf, Uri
      <4> QED
        BY <1>1, <3>1, <4>1, <4>3
    <3> QED
      BY <3>1, <3>2, <3>3, <3>4 DEF KnowsOnly
  <2> QED
    BY <2>1, <2>2
<1> QED
  BY <1>3, <1>4 DEF HonestBut, N

\* The filetype that is kept with d is asked for anew.
LEMMA RefreshKept ==
    ASSUME NEW M, NEW d \in Doc, Sound(M), M.doc[d].open
    PROVE  LET G == Get(ClearCachedFt(M, d), d) IN
           /\ Sound(G)
           /\ SameServers(G, M)
           /\ \A e \in Doc \ {d} : G.doc[e] = M.doc[e]
           /\ G.doc[d].open
           /\ G.doc[d].path = M.doc[d].path
           /\ G.doc[d].text = M.doc[d].text
           /\ G.doc[d].version = M.doc[d].version
           /\ G.doc[d].cached_ft = FtImpl(M, d)
<1> DEFINE r == [M.doc[d] EXCEPT !.cached_ft = NULL]
           C == ClearCachedFt(M, d)
           G == Get(C, d)
<1>0. M \in Tables /\ M.doc[d] \in DocType
  BY TablesType DEF Sound
<1>1. /\ r \in DocType
      /\ r.open = M.doc[d].open
      /\ r.path = M.doc[d].path
      /\ r.file_type = M.doc[d].file_type
      /\ r.text = M.doc[d].text
      /\ r.version = M.doc[d].version
      /\ r.cached_ft = NULL
  BY <1>0 DEF DocType
<1>2. C = [M EXCEPT !.doc[d] = r]
  BY <1>0 DEF ClearCachedFt, Tables
<1> HIDE DEF r, C
<1>3. /\ C \in Tables
      /\ C.server = M.server
      /\ C.doc[d] = r
      /\ \A e \in Doc \ {d} : C.doc[e] = M.doc[e]
  BY <1>0, <1>1, <1>2 DEF Tables
<1>4. Sound(C) /\ C.doc[d].open
  BY <1>1, <1>3 DEF Sound
<1>5. /\ Sound(G)
      /\ SameServers(G, C)
      /\ SameDoc(G.doc[d], C, d)
      /\ \A e \in Doc \ {d} : G.doc[e] = C.doc[e]
  BY <1>4, GetKept
<1> HIDE DEF G
<1>6. SameServers(G, M)
  BY <1>3, <1>5 DEF SameServers, Running
<1>7. /\ G.doc[d].path = M.doc[d].path
      /\ G.doc[d].text = M.doc[d].text
      /\ G.doc[d].version = M.doc[d].version
      /\ G.doc[d].open
  BY <1>1, <1>3, <1>5 DEF SameDoc
<1>8. FtImpl(C, d) = FtImpl(M, d)
  BY <1>1, <1>3 DEF FtImpl
<1>9. G.doc[d].cached_ft = FtImpl(M, d)
  BY <1>1, <1>3, <1>5, <1>8 DEF SameDoc
<1> QED
  BY <1>3, <1>5, <1>6, <1>7, <1>9 DEF G, C

\* A document with another filetype is closed where it was open, unless a mapping keeps
\* it where it is.  The filetype kept with it must be the one it had.
LEMMA FiletypeSetKept ==
    ASSUME NEW M, NEW d \in Doc, NEW old, Sound(M), M.doc[d].open
    PROVE  LET N == FiletypeSet(M, d, old) IN
           /\ Sound(N)
           /\ N.doc[d].open
           /\ \A e \in Doc \ {d} : N.doc[e] = M.doc[e]
           /\ /\ Honest(M)
              /\ M.doc[d].cached_ft \in
                     {NULL, IF M.doc[d].path \in MappedName THEN Mapped ELSE old}
              => Honest(N)
<1> DEFINE S == StartForFt(M, old)
           G == Get(ClearCachedFt(S, d), d)
           s_old == IF Running(S, old) THEN old ELSE NULL
           s_new == GotServer(G, d)
           D == IF s_old = NULL THEN G ELSE DidClose(G, s_old, d)
           N == FiletypeSet(M, d, old)
           Asked == /\ Honest(M)
                    /\ M.doc[d].cached_ft \in
                           {NULL, IF M.doc[d].path \in MappedName THEN Mapped ELSE old}
<1>1. N = IF ~session_loaded THEN M ELSE IF s_old = s_new THEN G ELSE Visible(D, d)
  BY DEF FiletypeSet
<1>2. Sound(S) /\ S.doc = M.doc /\ SameServers(S, M)
  BY StartForFtKept
<1> HIDE DEF S
<1>3. /\ Sound(G)
      /\ SameServers(G, S)
      /\ \A e \in Doc \ {d} : G.doc[e] = S.doc[e]
      /\ G.doc[d].open
      /\ G.doc[d].path = S.doc[d].path
      /\ G.doc[d].text = S.doc[d].text
      /\ G.doc[d].version = S.doc[d].version
      /\ G.doc[d].cached_ft = FtImpl(S, d)
  BY <1>2, RefreshKept
<1> HIDE DEF G, N
<1>4. /\ SameServers(G, M)
      /\ \A e \in Doc \ {d} : G.doc[e] = M.doc[e]
      /\ G.doc[d].path = M.doc[d].path
      /\ UriOf(G, d) = UriOf(M, d)
      /\ \A g : Running(S, g) <=> Running(M, g)
      /\ \A g : Running(G, g) <=> Running(M, g)
  BY <1>2, <1>3 DEF SameServers, UriOf, Running
<1>5. s_old \in Ft \cup {NULL} /\ (s_old # NULL => s_old = old)
  BY DEF Running
<1>6. Sound(D) /\ D.doc = G.doc
  <2>1. CASE s_old = NULL
    BY <1>3, <2>1
  <2>2. CASE s_old \in Ft
    <3>1. PICK o \in Ft : D = DidClose(G, o, d)
      BY <2>2
    <3> HIDE DEF D
    <3>2. Sound(G)
      BY <1>3
    <3> DEFINE C == DidClose(G, o, d)
    <3>3. /\ Sound(C)
          /\ C.doc = G.doc
          /\ \A g \in Ft \ {o} : C.server[g] = G.server[g]
          /\ C.server[o].state = G.server[o].state
          /\ C.server[o].open_docs = G.server[o].open_docs \ {d}
      BY <3>2, DidCloseKept
    <3> QED
      BY <3>1, <3>3
  <2> QED
    BY <1>5, <2>1, <2>2
<1>7. Asked => HonestBut(G, d)
  BY <1>3, <1>4, HonestButIs, HonestButKept
<1>8. ASSUME Asked, NEW g \in Ft, d \in G.server[g].open_docs
      PROVE  GotServer(G, d) = g \/ s_old = g
  <2>1. Knows(M, g, d)
    BY <1>4, <1>8 DEF Honest, SameServers
  <2>2. M.doc[d].path # NULL /\ M.doc[d].cached_ft = g /\ Running(M, g) /\ g # NULL
    BY <2>1, GotServerType DEF Knows
  <2>3. CASE M.doc[d].path \in MappedName
    <3>1. G.doc[d].cached_ft = g
      BY <1>2, <1>3, <1>8, <2>2, <2>3 DEF FtImpl
    <3> QED
      BY <1>4, <2>2, <3>1 DEF GotServer, Configured
  <2>4. CASE M.doc[d].path \notin MappedName
    BY <1>4, <1>8, <2>2, <2>4
  <2> QED
    BY <2>3, <2>4
<1>9. ASSUME Asked, NEW g \in Ft, d \in G.server[g].open_docs, GotServer(G, d) = g
      PROVE  Knows(G, g, d)
  <2>1. Knows(M, g, d)
    BY <1>4, <1>9 DEF Honest, SameServers
  <2> QED
    BY <1>2, <1>3, <1>4, <1>9, <2>1 DEF Knows, SameServers
<1>10. ASSUME Asked, s_old = s_new \/ s_old = NULL PROVE Honest(G)
  <2>1. \A g \in Ft : d \in G.server[g].open_docs => Knows(G, g, d)
    BY <1>8, <1>9, <1>10
  <2> QED
    BY <1>7, <1>10, <2>1, HonestButIs
<1>11. ASSUME Asked, s_old # NULL PROVE Honest(D)
  <2>1. s_old \in Ft /\ D = DidClose(G, s_old, d)
    BY <1>5, <1>11
  <2>2. HonestBut(D, d)
    BY <1>3, <1>7, <1>11, <2>1, DidCloseBut
  <2>3. /\ D.doc = G.doc
        /\ \A g \in Ft \ {s_old} : D.server[g] = G.server[g]
        /\ D.server[s_old].state = G.server[s_old].state
        /\ D.server[s_old].open_docs = G.server[s_old].open_docs \ {d}
    BY <1>3, <2>1, DidCloseKept
  <2> HIDE DEF D
  <2>4. GotServer(D, d) = GotServer(G, d)
    BY <2>3, SameServer DEF Running
  <2>5. ASSUME NEW g \in Ft, d \in D.server[g].open_docs PROVE Knows(D, g, d)
    <3>1. g # s_old /\ d \in G.server[g].open_docs /\ D.server[g] = G.server[g]
      BY <2>3, <2>5
    <3>2. Knows(G, g, d)
      BY <1>8, <1>9, <1>11, <3>1
    <3> QED
      BY <2>3, <2>4, <3>1, <3>2 DEF Knows, UriOf
  <2> QED
    BY <2>2, <2>5, HonestButIs
<1>12. Asked => Honest(D)
  BY <1>10, <1>11
<1> SUFFICES /\ Sound(N)
             /\ N.doc[d].open
             /\ \A e \in Doc \ {d} : N.doc[e] = M.doc[e]
             /\ Asked => Honest(N)
  BY DEF N
<1>13. CASE ~session_loaded
  BY <1>1, <1>13
<1>14. CASE session_loaded /\ s_old = s_new
  BY <1>1, <1>3, <1>4, <1>10, <1>14
<1>15. CASE session_loaded /\ s_old # s_new
  <2> HIDE DEF D, Asked
  <2>1. Sound(D) /\ D.doc[d].open
    BY <1>3, <1>6
  <2>2. Handled(Visible(D, d), D, d)
    BY <2>1, VisibleKept
  <2>3. N = Visible(D, d)
    BY <1>1, <1>15
  <2> QED
    BY <1>4, <1>6, <1>12, <2>1, <2>2, <2>3 DEF Handled
<1> QED
  BY <1>13, <1>14, <1>15

-----------------------------------------------------------------------------
(* Opening several documents *)

\* The recursive function of DidOpenAll() up to n; there is one.
IsOpened(g, M, f, order, n) ==
    g = [i \in 0 .. n |-> IF i = 0 THEN M ELSE DidOpen(g[i - 1], f, order[i])]

LEMMA OpenedExists ==
    ASSUME NEW M, NEW f, NEW order, NEW n \in Nat
    PROVE  \E g : IsOpened(g, M, f, order, n)
<1> USE DEF IsOpened
<1> DEFINE T == {k \in 0 .. n : ~ \E g : g = [i \in 0 .. k |->
                                     IF i = 0 THEN M ELSE DidOpen(g[i - 1], f, order[i])]}
<1> SUFFICES ASSUME T # {} PROVE FALSE
  OBVIOUS
<1>1. PICK m \in T : \A k \in T : m <= k
  <2>1. T \in SUBSET Nat
    OBVIOUS
  <2> HIDE DEF T
  <2> QED
    BY <2>1, LeastNat
<1>2. m \in 0 .. n
  OBVIOUS
<1>3. CASE m = 0
  <2> DEFINE g == [i \in 0 .. 0 |-> M]
  <2>1. g = [i \in 0 .. 0 |-> IF i = 0 THEN M ELSE DidOpen(g[i - 1], f, order[i])]
    OBVIOUS
  <2> HIDE DEF g
  <2> QED
    BY <1>3, <2>1
<1>4. CASE m # 0
  <2>1. m - 1 \in 0 .. n /\ m - 1 \notin T
    BY <1>1, <1>2, <1>4
  <2>2. PICK h : h = [i \in 0 .. (m - 1) |->
                         IF i = 0 THEN M ELSE DidOpen(h[i - 1], f, order[i])]
    BY <2>1
  <2> DEFINE g == [i \in 0 .. m |->
                      IF i = m THEN DidOpen(h[m - 1], f, order[m]) ELSE h[i]]
  <2>3. \A i \in 0 .. m : g[i] = IF i = 0 THEN M ELSE DidOpen(g[i - 1], f, order[i])
    BY <1>2, <1>4, <2>2
  <2>4. g = [i \in 0 .. m |-> IF i = 0 THEN M ELSE DidOpen(g[i - 1], f, order[i])]
    BY <2>3
  <2> HIDE DEF g
  <2> QED
    BY <2>4
<1> QED
  BY <1>3, <1>4

\* The books after each of the documents that DidOpenAll opens.
InTurn(g, M, f, order) ==
    /\ g[0] = M
    /\ \A i \in 1 .. Len(order) : g[i] = DidOpen(g[i - 1], f, order[i])
    /\ DidOpenAll(M, f, order) = g[Len(order)]

LEMMA DidOpenAllSteps ==
    ASSUME NEW M, NEW f, NEW order, Len(order) \in Nat
    PROVE  \E g : InTurn(g, M, f, order)
<1> DEFINE L == Len(order)
           g0 == CHOOSE g : g = [i \in 0 .. Len(order) |->
                                    IF i = 0 THEN M ELSE DidOpen(g[i - 1], f, order[i])]
<1>1. \E g : IsOpened(g, M, f, order, L)
  BY OpenedExists
<1>2. g0 = [i \in 0 .. L |-> IF i = 0 THEN M ELSE DidOpen(g0[i - 1], f, order[i])]
  BY <1>1 DEF IsOpened
<1>3. DidOpenAll(M, f, order) = g0[L]
  BY Zenon DEF DidOpenAll
<1> HIDE DEF g0
<1>4. g0[0] = M /\ \A i \in 1 .. L : g0[i] = DidOpen(g0[i - 1], f, order[i])
  BY <1>2
<1>5. InTurn(g0, M, f, order)
  BY <1>3, <1>4 DEF InTurn
<1> QED
  BY <1>5

LEMMA DidOpenAllKept ==
    ASSUME NEW M, NEW f \in Ft, NEW order \in Seq(Doc), Sound(M),
           \A i \in 1 .. Len(order) : M.doc[order[i]].open /\ GotServer(M, order[i]) = f
    PROVE  LET N == DidOpenAll(M, f, order) IN
           /\ Sound(N)
           /\ Honest(M) => Honest(N)
           /\ \A e \in Doc : N.doc[e].open = M.doc[e].open
<1> DEFINE L == Len(order)
           Kept(N) == /\ Sound(N)
                      /\ Honest(M) => Honest(N)
                      /\ \A e \in Doc : /\ N.doc[e].open = M.doc[e].open
                                        /\ GotServer(N, e) = GotServer(M, e)
<1>0. L \in Nat
  OBVIOUS
<1>a. PICK g : InTurn(g, M, f, order)
  BY <1>0, DidOpenAllSteps
<1>1. /\ g[0] = M
      /\ \A i \in 1 .. L : g[i] = DidOpen(g[i - 1], f, order[i])
      /\ DidOpenAll(M, f, order) = g[L]
  BY <1>a DEF InTurn
<1>2. ASSUME NEW i \in 1 .. L, Kept(g[i - 1]) PROVE Kept(g[i])
  <2> DEFINE B == g[i - 1]
             d == order[i]
             N == DidOpen(B, f, d)
  <2>1. d \in Doc /\ M.doc[d].open /\ GotServer(M, d) = f
    OBVIOUS
  <2>2. Kept(B) /\ g[i] = N
    BY <1>1, <1>2
  <2> HIDE DEF B, d
  <2>3. Sound(B) /\ B.doc[d].open /\ GotServer(B, d) = f
    BY <2>1, <2>2
  <2>4. Handled(N, B, d) /\ \A e \in Doc : GotServer(N, e) = GotServer(B, e)
    BY <2>1, <2>3, DidOpenHandled
  <2> HIDE DEF N
  <2>5. /\ Sound(N)
        /\ Honest(M) => Honest(N)
        /\ N.doc[d].open = B.doc[d].open
        /\ \A e \in Doc \ {d} : N.doc[e] = B.doc[e]
    BY <2>2, <2>4 DEF Handled
  <2>6. \A e \in Doc : N.doc[e].open = M.doc[e].open /\ GotServer(N, e) = GotServer(M, e)
    BY <2>2, <2>4, <2>5
  <2> QED
    BY <2>2, <2>5, <2>6
<1>3. Kept(g[0])
  BY <1>1
<1>4. Kept(g[L])
  <2> DEFINE T == {k \in 0 .. L : ~Kept(g[k])}
  <2> HIDE DEF Kept
  <2> SUFFICES ASSUME T # {} PROVE FALSE
    BY <1>0
  <2>1. PICK m \in T : \A k \in T : m <= k
    <3>1. T \in SUBSET Nat
      OBVIOUS
    <3> HIDE DEF T
    <3> QED
      BY <3>1, LeastNat
  <2>2. m \in 1 .. L /\ m - 1 \in 0 .. L /\ m - 1 \notin T
    BY <1>0, <1>3, <2>1
  <2> QED
    BY <1>2, <2>1, <2>2
<1> QED
  BY <1>1, <1>4

-----------------------------------------------------------------------------
(* The actions *)

\* The inductive invariant.  What the servers were told holds when no step leaves a
\* document with a stale filetype: else a document may stay open at a server that does
\* not serve it.
IInv ==
    /\ Sound(M0)
    /\ current \in {d \in Doc : doc[d].open} \cup {NULL}
    /\ session_loaded \in BOOLEAN
    /\ update_source \subseteq Doc
    /\ StaleFt = FALSE => Honest(M0) /\ \A d \in Doc : ~Stale(M0, d)

\* A handler that ends with the tables N keeps the invariant.
Kept(N) == Sound(N) /\ (Honest(M0) /\ (\A d \in Doc : ~Stale(M0, d)) => Honest(N))

LEMMA Committed ==
    ASSUME IInv, NEW N, Commit(N), Kept(N),
           current' \in {d \in Doc : N.doc[d].open} \cup {NULL},
           session_loaded' \in BOOLEAN,
           update_source' \subseteq Doc
    PROVE  IInv'
<1>1. M0' = N
  BY DEF M0, Commit, Kept, Sound, Tables
<1>2. Sound(M0')
  BY <1>1 DEF Kept
<1>3. doc' = N.doc
  BY DEF Commit
<1>4. ASSUME StaleFt = FALSE PROVE Honest(M0') /\ \A d \in Doc : ~Stale(M0', d)
  BY <1>1, <1>4 DEF IInv, Kept, Commit
<1> QED
  BY <1>2, <1>3, <1>4 DEF IInv

DocPut(M, d, r) == [M EXCEPT !.doc[d] = r]

\* A document that becomes r is the one it was to the servers.
SameToServers(r, q) ==
    /\ r.open = q.open
    /\ r.path = q.path
    /\ r.text = q.text
    /\ r.version = q.version
    /\ r.cached_ft = q.cached_ft

\* d, which is open nowhere or changes in nothing that a server knows, becomes r.
LEMMA DocPutKept ==
    ASSUME NEW M, NEW d \in Doc, NEW r \in DocType, Sound(M), r.open \/ r = Closed,
           \/ ~M.doc[d].open
           \/ Honest(M) => Unopened(M, d)
           \/ SameToServers(r, M.doc[d])
    PROVE  LET N == DocPut(M, d, r) IN
           /\ Sound(N)
           /\ Honest(M) => Honest(N)
           /\ N.server = M.server
           /\ N.doc[d] = r
           /\ \A e \in Doc \ {d} : N.doc[e] = M.doc[e]
<1> DEFINE N == DocPut(M, d, r)
<1>0. M \in Tables
  BY DEF Sound
<1>1. /\ N \in Tables
      /\ N.server = M.server
      /\ N.doc[d] = r
      /\ \A e \in Doc \ {d} : N.doc[e] = M.doc[e]
  BY <1>0 DEF DocPut, Tables
<1> HIDE DEF N
<1>2. Sound(N)
  BY <1>1 DEF Sound
<1>3. Honest(M) /\ ~M.doc[d].open => Unopened(M, d)
  BY DEF Honest, Knows, Unopened
<1>4. Honest(M) => Honest(N)
  BY <1>1, <1>3, DocChanged DEF SameToServers
<1> QED
  BY <1>1, <1>2, <1>4 DEF N

LEMMA ClosedType ==
    Closed \in DocType /\ ~Closed.open /\ Closed.cached_ft = NULL
<1>1. 1 \in Text
  BY DEF Text
<1> QED
  BY <1>1 DEF Closed, DocType

LEMMA HandledCommitted ==
    ASSUME IInv, NEW N, Commit(N), NEW E, NEW d \in Doc, Kept(E), Handled(N, E, d),
           \A e \in Doc \ {d} : E.doc[e] = doc[e], E.doc[d].open,
           current' \in {current, d},
           session_loaded' \in BOOLEAN,
           update_source' \subseteq Doc
    PROVE  IInv'
<1>1. Kept(N)
  BY DEF Kept, Handled
<1>2. N.doc[d].open /\ \A e \in Doc \ {d} : N.doc[e] = doc[e]
  BY DEF Handled
<1>3. current' \in {e \in Doc : N.doc[e].open} \cup {NULL}
  BY <1>2 DEF IInv
<1> QED
  BY <1>1, <1>3, Committed

LEMMA M0Kept ==
    ASSUME IInv
    PROVE  Kept(M0) /\ Sound(M0) /\ M0.doc = doc /\ M0.server = server
BY DEF IInv, Kept, M0

LEMMA NewDocumentKept == ASSUME IInv, NEW d \in Doc, NewDocument(d) PROVE IInv'
<1> DEFINE r == [M0.doc[d] EXCEPT !.open = TRUE]
           E == [M0 EXCEPT !.doc[d].open = TRUE]
<1>0. Sound(M0) /\ M0 \in Tables /\ M0.doc = doc /\ M0.doc[d] \in DocType
  BY M0Kept, TablesType DEF Sound
<1>1. r \in DocType /\ r.open
  BY <1>0 DEF DocType
<1>2. E = DocPut(M0, d, r)
  BY <1>0 DEF DocPut, Tables
<1> HIDE DEF r, E
<1>3. /\ Sound(E)
      /\ Honest(M0) => Honest(E)
      /\ E.doc[d] = r
      /\ \A e \in Doc \ {d} : E.doc[e] = M0.doc[e]
  <2>1. ~M0.doc[d].open
    BY <1>0 DEF NewDocument
  <2> QED
    BY <1>0, <1>1, <1>2, <2>1, DocPutKept
<1>4. Kept(E) /\ E.doc[d].open
  BY <1>1, <1>3 DEF Kept
<1>5. Handled(Visible(E, d), E, d)
  BY <1>3, <1>4, VisibleKept
<1>6. /\ Commit(Visible(E, d))
      /\ current' = d /\ session_loaded' \in BOOLEAN /\ update_source' = update_source
  BY DEF NewDocument, E
<1>7. update_source' \subseteq Doc
  BY <1>6 DEF IInv
<1> QED
  BY <1>0, <1>3, <1>4, <1>5, <1>6, <1>7, HandledCommitted

LEMMA ActivateKept == ASSUME IInv, NEW d \in Doc, Activate(d) PROVE IInv'
<1>1. Kept(M0) /\ Sound(M0) /\ M0.doc = doc
  BY M0Kept
<1>2. M0.doc[d].open
  BY <1>1 DEF Activate
<1>3. Handled(Visible(M0, d), M0, d)
  BY <1>1, <1>2, VisibleKept
<1>4. /\ Commit(Visible(M0, d))
      /\ current' = d /\ session_loaded' \in BOOLEAN /\ update_source' \subseteq Doc
  BY DEF Activate, IInv
<1> QED
  BY <1>1, <1>2, <1>3, <1>4, HandledCommitted

LEMMA QueryKept == ASSUME IInv, NEW d \in Doc, Query(d) PROVE IInv'
<1>1. Kept(M0) /\ Sound(M0) /\ M0.doc = doc
  BY M0Kept
<1>2. M0.doc[d].open
  BY <1>1 DEF Query
<1>3. Handled(Get(M0, d), M0, d)
  BY <1>1, <1>2, GetHandled
<1>4. /\ Commit(Get(M0, d))
      /\ current' = current /\ session_loaded' \in BOOLEAN /\ update_source' \subseteq Doc
  BY DEF Query, IInv
<1> QED
  BY <1>1, <1>2, <1>3, <1>4, HandledCommitted

LEMMA EditKept == ASSUME IInv, NEW d \in Doc, NEW kind, Edit(d, kind) PROVE IInv'
<1>1. Kept(M0) /\ Sound(M0) /\ M0.doc = doc
  BY M0Kept
<1>2. M0.doc[d].open /\ M0.doc[d].text < MaxText
  BY <1>1 DEF Edit
<1>3. Handled(Modified(M0, d, kind), M0, d)
  BY <1>1, <1>2, ModifiedKept
<1>4. Commit(Modified(M0, d, kind)) /\ current' = current
  BY DEF Edit
<1>5. session_loaded' \in BOOLEAN /\ update_source' \subseteq Doc
  BY DEF Edit, IInv
<1> QED
  BY <1>1, <1>2, <1>3, <1>4, <1>5, HandledCommitted

LEMMA UpdateIdleKept == ASSUME IInv, NEW d \in Doc, UpdateIdle(d) PROVE IInv'
<1> DEFINE G == GetFt(M0, d)
           f == GotServer(G, d)
           N == IF doc[d].open THEN DidOpen(G, f, d) ELSE M0
<1>1. Kept(M0) /\ Sound(M0) /\ M0.doc = doc
  BY M0Kept
<1>2. Commit(N) /\ current' = current
  BY DEF UpdateIdle
<1>3. session_loaded' \in BOOLEAN /\ update_source' \subseteq Doc
  BY DEF UpdateIdle, IInv
<1>4. CASE ~doc[d].open
  <2>1. current' \in {e \in Doc : M0.doc[e].open} \cup {NULL}
    BY <1>1, <1>2 DEF IInv
  <2>2. Commit(M0)
    BY <1>2, <1>4
  <2> QED
    BY <1>1, <1>3, <2>1, <2>2, Committed
<1>5. CASE doc[d].open
  <2>1. /\ Sound(G)
        /\ Honest(M0) => Honest(G)
        /\ \A e \in Doc \ {d} : G.doc[e] = M0.doc[e]
    BY <1>1, <1>5, GetFtKept, ZenonT(30)

  <2>2. SameDoc(G.doc[d], M0, d)
    BY <1>1, <1>5, GetFtDoc
  <2>3. f \in Ft \cup {NULL}
    BY GotServerType
  <2> HIDE DEF G
  <2>4. Kept(G) /\ G.doc[d].open
    BY <1>1, <1>5, <2>1, <2>2 DEF Kept, SameDoc
  <2>5. Handled(DidOpen(G, f, d), G, d)
    <3>1. CASE f = NULL
      BY <2>1, <3>1 DEF DidOpen, Handled
    <3>2. CASE f \in Ft
      BY <2>1, <2>4, <3>2, DidOpenHandled
    <3> QED
      BY <2>3, <3>1, <3>2
  <2>6. Commit(DidOpen(G, f, d))
    BY <1>2, <1>5
  <2> HIDE DEF f
  <2> QED
    BY <1>1, <1>2, <1>3, <2>1, <2>4, <2>5, <2>6, HandledCommitted
<1> QED
  BY <1>4, <1>5

LEMMA OpenDocumentKept ==
    ASSUME IInv, NEW d \in Doc, NEW n \in NameOf[d], NEW f \in FtOf[d], OpenDocument(d, n, f)
    PROVE  IInv'
<1> DEFINE r == [Closed EXCEPT !.open = TRUE, !.path = n, !.file_type = f]
           E == [M0 EXCEPT !.doc[d].open = TRUE, !.doc[d].path = n, !.doc[d].file_type = f]
           N == FiletypeSet(E, d, None)
<1>0. Sound(M0) /\ M0 \in Tables /\ M0.doc = doc
  BY M0Kept DEF Sound
<1>1. M0.doc[d] = Closed /\ ~M0.doc[d].open
  BY <1>0, ClosedType DEF OpenDocument, Sound
<1>2. r \in DocType /\ r.open /\ r.cached_ft = NULL
  BY ClosedType DEF DocType
<1>3. E = DocPut(M0, d, r)
  BY <1>0, <1>1, ClosedType, ZenonT(30) DEF DocPut, Tables, DocType
<1> HIDE DEF r, E
<1>4. /\ Sound(E)
      /\ Honest(M0) => Honest(E)
      /\ E.doc[d] = r
      /\ \A e \in Doc \ {d} : E.doc[e] = M0.doc[e]
  BY <1>0, <1>1, <1>2, <1>3, DocPutKept
<1>5. /\ Sound(N)
      /\ N.doc[d].open
      /\ \A e \in Doc \ {d} : N.doc[e] = E.doc[e]
      /\ Honest(E) => Honest(N)
  BY <1>2, <1>4, FiletypeSetKept
<1>6. Commit(N) /\ current' = current
  BY DEF OpenDocument, E
<1> HIDE DEF N
<1>7. Kept(N)
  BY <1>4, <1>5 DEF Kept
<1>8. current' \in {e \in Doc : N.doc[e].open} \cup {NULL}
  BY <1>0, <1>4, <1>5, <1>6 DEF IInv
<1>9. session_loaded' \in BOOLEAN /\ update_source' \subseteq Doc
  BY DEF OpenDocument, IInv
<1> QED
  BY <1>6, <1>7, <1>8, <1>9, Committed

LEMMA SetFiletypeKept ==
    ASSUME IInv, NEW d \in Doc, NEW f \in FtOf[d], SetFiletype(d, f)
    PROVE  IInv'
<1> DEFINE old == doc[d].file_type
           r == [M0.doc[d] EXCEPT !.file_type = f]
           E == [M0 EXCEPT !.doc[d].file_type = f]
           N == FiletypeSet(E, d, old)
<1>0. Sound(M0) /\ M0 \in Tables /\ M0.doc = doc /\ M0.doc[d] \in DocType
  BY M0Kept, TablesType DEF Sound
<1>1. M0.doc[d].open
  BY <1>0 DEF SetFiletype, IInv
<1>2. /\ r \in DocType
      /\ r.open = M0.doc[d].open
      /\ r.path = M0.doc[d].path
      /\ r.text = M0.doc[d].text
      /\ r.version = M0.doc[d].version
      /\ r.cached_ft = M0.doc[d].cached_ft
  BY <1>0 DEF DocType
<1>3. E = DocPut(M0, d, r)
  BY <1>0 DEF DocPut, Tables
<1>4. Commit(N) /\ current' = current
  BY DEF SetFiletype
<1> HIDE DEF r, E, N
<1>12. r.open
  BY <1>1, <1>2
<1>5. /\ Sound(E)
      /\ Honest(M0) => Honest(E)
      /\ E.doc[d] = r
      /\ \A e \in Doc \ {d} : E.doc[e] = M0.doc[e]
  <2>1. SameToServers(r, M0.doc[d])
    BY <1>2 DEF SameToServers
  <2> QED
    BY <1>0, <1>2, <1>3, <1>12, <2>1, DocPutKept
<1>6. ~Stale(M0, d) => E.doc[d].cached_ft \in
                           {NULL, IF E.doc[d].path \in MappedName THEN Mapped ELSE old}
  BY <1>0, <1>2, <1>5 DEF Stale, FtImpl
<1>7. E.doc[d].open
  BY <1>1, <1>2, <1>5
<1>8. /\ Sound(N)
      /\ N.doc[d].open
      /\ \A e \in Doc \ {d} : N.doc[e] = E.doc[e]
      /\ Honest(E) /\ ~Stale(M0, d) => Honest(N)
  BY <1>5, <1>6, <1>7, FiletypeSetKept DEF N
<1>9. Kept(N)
  BY <1>5, <1>8 DEF Kept
<1>10. current' \in {e \in Doc : N.doc[e].open} \cup {NULL}
  BY <1>0, <1>4, <1>5, <1>8 DEF IInv
<1>11. session_loaded' \in BOOLEAN /\ update_source' \subseteq Doc
  BY DEF SetFiletype, IInv
<1> QED
  BY <1>4, <1>9, <1>10, <1>11, Committed

LEMMA SaveKept == ASSUME IInv, NEW d \in Doc, Save(d) PROVE IInv'
<1> DEFINE G == Get(M0, d)
           f == GotServer(G, d)
           b == f # NULL
           r == [G.doc[d] EXCEPT !.changed = FALSE, !.marked = @ \/ b]
           B == [G EXCEPT !.doc[d].changed = FALSE, !.doc[d].marked = @ \/ b]
           N == Saved(B, d)
<1>0. Kept(M0) /\ Sound(M0) /\ M0.doc = doc
  BY M0Kept
<1>1. Handled(G, M0, d)
  BY <1>0, GetHandled DEF Save
<1>2. /\ Commit(N)
      /\ current' = current
      /\ update_source' = update_source
  BY DEF Save
<1>3. session_loaded' \in BOOLEAN
  BY DEF Save, IInv
<1> HIDE DEF G, b, N
<1>4. /\ Sound(G)
      /\ Honest(M0) => Honest(G)
      /\ \A e \in Doc \ {d} : G.doc[e] = M0.doc[e]
      /\ G.doc[d].open
      /\ G \in Tables
      /\ G.doc[d] \in DocType
  BY <1>0, <1>1, TablesType DEF Handled, Sound, Save
<1>5. /\ r \in DocType
      /\ r.open = G.doc[d].open
      /\ r.path = G.doc[d].path
      /\ r.text = G.doc[d].text
      /\ r.version = G.doc[d].version
      /\ r.cached_ft = G.doc[d].cached_ft
  BY <1>4 DEF DocType
<1>6. B = DocPut(G, d, r)
  BY <1>4, ZenonT(30) DEF DocPut, Tables, DocType
<1> HIDE DEF r, B
<1>12. r.open
  BY <1>4, <1>5
<1>7. /\ Sound(B)
      /\ Honest(G) => Honest(B)
      /\ B.doc[d] = r
      /\ \A e \in Doc \ {d} : B.doc[e] = G.doc[e]
  <2>1. SameToServers(r, G.doc[d])
    BY <1>5 DEF SameToServers
  <2> QED
    BY <1>4, <1>5, <1>6, <1>12, <2>1, DocPutKept
<1>8. B.doc[d].open /\ Kept(B)
  BY <1>4, <1>5, <1>7 DEF Kept
<1>9. Handled(N, B, d)
  BY <1>7, <1>8, SavedKept DEF N
<1>10. \A e \in Doc \ {d} : B.doc[e] = doc[e]
  BY <1>0, <1>4, <1>7
<1>11. update_source' \subseteq Doc
  BY <1>2 DEF IInv
<1> QED
  BY <1>2, <1>3, <1>8, <1>9, <1>10, <1>11, HandledCommitted

\* A document that is closed at the server that serves it is open nowhere.
LEMMA ClosedEverywhere ==
    ASSUME NEW G, NEW d \in Doc, Sound(G)
    PROVE  LET f == GotServer(G, d)
               C == IF f = NULL THEN G ELSE DidClose(G, f, d)
           IN /\ Sound(C)
              /\ C.doc = G.doc
              /\ Honest(G) => Honest(C) /\ Unopened(C, d)
<1> DEFINE f == GotServer(G, d)
           C == IF f = NULL THEN G ELSE DidClose(G, f, d)
<1>1. CASE f = NULL
  BY <1>1, ServedOnce
<1>2. CASE f # NULL
  <2>1. f \in Ft /\ C = DidClose(G, f, d)
    BY <1>2, GotServerType
  <2> HIDE DEF C
  <2>2. /\ Sound(C)
        /\ C.doc = G.doc
        /\ \A g \in Ft \ {f} : C.server[g] = G.server[g]
        /\ C.server[f].state = G.server[f].state
        /\ C.server[f].open_docs = G.server[f].open_docs \ {d}
    BY <2>1, DidCloseKept
  <2>3. Honest(G) => Honest(C)
    BY <2>1, DidCloseHonest
  <2>4. Honest(G) => Unopened(C, d)
    BY <2>2, ServedOnce DEF Unopened
  <2> QED
    BY <2>2, <2>3, <2>4 DEF C
<1> QED
  BY <1>1, <1>2

LEMMA SaveAsKept == ASSUME IInv, NEW d \in Doc, NEW n \in NameOf[d], SaveAs(d, n) PROVE IInv'
<1> DEFINE G == Get(M0, d)
           f == GotServer(G, d)
           C == IF f = NULL THEN G ELSE DidClose(G, f, d)
           r == [C.doc[d] EXCEPT !.path = n, !.changed = FALSE]
           B == [C EXCEPT !.doc[d].path = n, !.doc[d].changed = FALSE]
           N == Saved(B, d)
<1>0. Kept(M0) /\ Sound(M0) /\ M0.doc = doc /\ M0.doc[d].open
  BY M0Kept DEF SaveAs
<1>1. Handled(G, M0, d)
  BY <1>0, GetHandled
<1>2. /\ Commit(N)
      /\ current' = current
      /\ update_source' = update_source
  BY DEF SaveAs
<1>3. session_loaded' \in BOOLEAN
  BY DEF SaveAs, IInv
<1> HIDE DEF G, N
<1>4. /\ Sound(G)
      /\ Honest(M0) => Honest(G)
      /\ \A e \in Doc \ {d} : G.doc[e] = M0.doc[e]
      /\ G.doc[d].open
  BY <1>0, <1>1 DEF Handled
<1>5. /\ Sound(C)
      /\ C.doc = G.doc
      /\ Honest(G) => Honest(C) /\ Unopened(C, d)
  BY <1>4, ClosedEverywhere
<1> HIDE DEF C
<1>6. C \in Tables /\ C.doc[d] \in DocType /\ C.doc[d].open
  BY <1>4, <1>5, TablesType DEF Sound
<1>7. r \in DocType /\ r.open = C.doc[d].open
  BY <1>6 DEF DocType
<1>8. B = DocPut(C, d, r)
  BY <1>6, ZenonT(30) DEF DocPut, Tables, DocType
<1> HIDE DEF r, B
<1>9. r.open
  BY <1>6, <1>7
<1>10. /\ Sound(B)
       /\ Honest(G) => Honest(B)
       /\ B.doc[d] = r
       /\ \A e \in Doc \ {d} : B.doc[e] = C.doc[e]
  <2>1. CASE Honest(G)
    BY <1>5, <1>7, <1>8, <1>9, <2>1, DocPutKept
  <2>2. CASE ~Honest(G)
    <3>1. /\ B \in Tables
          /\ B.server = C.server
          /\ B.doc[d] = r
          /\ \A e \in Doc \ {d} : B.doc[e] = C.doc[e]
      BY <1>6, <1>7, <1>8 DEF DocPut, Tables
    <3> QED
      BY <1>5, <1>9, <2>2, <3>1 DEF Sound
  <2> QED
    BY <2>1, <2>2
<1>11. B.doc[d].open /\ Kept(B)
  BY <1>4, <1>9, <1>10 DEF Kept
<1>12. Handled(N, B, d)
  BY <1>10, <1>11, SavedKept DEF N
<1>13. \A e \in Doc \ {d} : B.doc[e] = doc[e]
  BY <1>0, <1>4, <1>5, <1>10
<1>14. update_source' \subseteq Doc
  BY <1>2 DEF IInv
<1> QED
  BY <1>2, <1>3, <1>11, <1>12, <1>13, <1>14, HandledCommitted

LEMMA CloseDocumentKept == ASSUME IInv, NEW d \in Doc, CloseDocument(d) PROVE IInv'
<1> DEFINE G == GetFt(M0, d)
           f == GotServer(G, d)
           C == IF f = NULL THEN G ELSE DidClose(G, f, d)
           N == [C EXCEPT !.doc[d] = Closed]
<1>0. Kept(M0) /\ Sound(M0) /\ M0.doc = doc /\ M0.doc[d].open
  BY M0Kept DEF CloseDocument
<1>1. /\ Sound(G)
      /\ Honest(M0) => Honest(G)
      /\ \A e \in Doc \ {d} : G.doc[e] = M0.doc[e]
  BY <1>0, GetFtKept
<1>2. /\ Commit(N)
      /\ current' = IF current = d THEN NULL ELSE current
  BY DEF CloseDocument
<1>3. session_loaded' \in BOOLEAN /\ update_source' \subseteq Doc
  BY DEF CloseDocument, IInv
<1> HIDE DEF G
<1>4. /\ Sound(C)
      /\ C.doc = G.doc
      /\ Honest(G) => Honest(C) /\ Unopened(C, d)
  BY <1>1, ClosedEverywhere
<1> HIDE DEF C, N
<1>5. C \in Tables
  BY <1>4 DEF Sound
<1>6. /\ N \in Tables
      /\ N.server = C.server
      /\ N.doc[d] = Closed
      /\ \A e \in Doc \ {d} : N.doc[e] = C.doc[e]
  BY <1>5, ClosedType DEF Tables, N
<1>7. Sound(N)
  BY <1>4, <1>6 DEF Sound
<1>8. Honest(G) => Honest(N)
  BY <1>4, <1>6, DocChanged
<1>9. Kept(N)
  BY <1>1, <1>7, <1>8 DEF Kept
<1>10. current' \in {e \in Doc : N.doc[e].open} \cup {NULL}
  <2>1. CASE current = d
    BY <1>2, <2>1
  <2>2. CASE current # d
    BY <1>0, <1>1, <1>2, <1>4, <1>6, <2>2 DEF IInv
  <2> QED
    BY <2>1, <2>2
<1> QED
  BY <1>2, <1>3, <1>9, <1>10, Committed

-----------------------------------------------------------------------------
(* The servers *)

LEMMA FreshType ==
    /\ Fresh \in ServerType
    /\ Books(Fresh)
    /\ Fresh.open_docs = {} /\ DOMAIN Fresh.view = {} /\ ~Fresh.confused
<1>1. <<>> \in View
  <2>1. <<>> \in [{} -> Known]
    OBVIOUS
  <2> QED
    BY <2>1 DEF View
<1>2. Books(Fresh)
  BY DEF Fresh, Books, ToSet, IsInjective
<1>3. Fresh \in ServerType
  BY <1>1 DEF Fresh, ServerType
<1> QED
  BY <1>2, <1>3 DEF Fresh

\* A server is replaced by one that has no document open.
LEMMA ServerSetKept ==
    ASSUME NEW M, NEW N, NEW f \in Ft, NEW s \in ServerType, Sound(M), Books(s),
           N = [M EXCEPT !.server[f] = s]
    PROVE  /\ Sound(N)
           /\ N.doc = M.doc
           /\ Honest(M) /\ s.open_docs = {} /\ DOMAIN s.view = {} /\ ~s.confused => Honest(N)
<1>0. M \in Tables
  BY DEF Sound
<1>1. /\ N \in Tables
      /\ N.doc = M.doc
      /\ N.server[f] = s
      /\ \A g \in Ft \ {f} : N.server[g] = M.server[g]
  BY <1>0 DEF Tables
<1>2. Sound(N)
  BY <1>1 DEF Sound
<1>3. ASSUME Honest(M), s.open_docs = {}, DOMAIN s.view = {}, ~s.confused
      PROVE  Honest(N)
  <2>1. ASSUME NEW g \in Ft \ {f}, NEW e \in N.server[g].open_docs PROVE Knows(N, g, e)
    <3>1. Knows(M, g, e) /\ GotServer(M, e) = g
      BY <1>1, <1>3 DEF Honest, Knows
    <3>3. g # NULL /\ Running(M, g) /\ M.doc[e].path # NULL /\ M.doc[e].cached_ft = g
      BY <3>1, GotServerType
    <3>4. Running(N, g)
      BY <1>1, <3>3 DEF Running
    <3>2. GotServer(N, e) = g
      BY <1>1, <3>3, <3>4 DEF GotServer, Configured
    <3> QED
      BY <1>1, <3>1, <3>2 DEF Knows, UriOf
  <2>2. \A g \in Ft \ {f} : KnowsOnly(N, g) /\ ~N.server[g].confused
    BY <1>1, <1>3 DEF Honest, KnowsOnly
  <2>3. KnowsOnly(N, f) /\ ~N.server[f].confused /\ N.server[f].open_docs = {}
    BY <1>1, <1>3 DEF KnowsOnly
  <2> QED
    BY <2>1, <2>2, <2>3 DEF Honest
<1> QED
  BY <1>1, <1>2, <1>3

LEMMA ServerCrashedKept == ASSUME IInv, NEW f \in Ft, ServerCrashed(f) PROVE IInv'
<1> DEFINE N == [M0 EXCEPT !.server[f] = Fresh]
<1>0. Sound(M0) /\ M0.doc = doc
  BY M0Kept
<1>1. M0' = N
  BY DEF ServerCrashed, M0
<1> HIDE DEF N
<1>2. Sound(N) /\ N.doc = doc /\ (Honest(M0) => Honest(N))
  BY <1>0, FreshType, ServerSetKept DEF N
<1>3. \A d \in Doc : Stale(N, d) <=> Stale(M0, d)
  BY <1>0, <1>2 DEF Stale, FtImpl
<1>4. UNCHANGED <<doc, current, session_loaded, update_source>>
  BY DEF ServerCrashed
<1> QED
  BY <1>1, <1>2, <1>3, <1>4 DEF IInv

LEMMA RestartAllKept == ASSUME IInv, NEW show \in BOOLEAN, RestartAll(show) PROVE IInv'
<1> DEFINE R == [doc |-> doc, server |-> [f \in Ft |-> Fresh]]
           N == IF show /\ current # NULL THEN Visible(R, current) ELSE R
<1>0. Sound(M0) /\ M0.doc = doc
  BY M0Kept
<1>1. Sound(R)
  BY <1>0, FreshType DEF Sound, Tables
<1>2. Honest(R)
  BY FreshType DEF Honest, KnowsOnly
<1>3. Commit(N) /\ current' = current /\ update_source' = update_source
  BY DEF RestartAll
<1>4. session_loaded' \in BOOLEAN /\ update_source' \subseteq Doc
  BY <1>3 DEF RestartAll, IInv
<1>5. R.doc = doc
  OBVIOUS
<1> HIDE DEF R
<1>6. CASE show /\ current # NULL
  <2>1. current \in Doc /\ R.doc[current].open
    BY <1>5, <1>6 DEF IInv
  <2>2. Handled(Visible(R, current), R, current)
    BY <1>1, <2>1, VisibleKept
  <2>3. Kept(R)
    BY <1>1, <1>2 DEF Kept
  <2>4. Commit(Visible(R, current))
    BY <1>3, <1>6
  <2>5. \A e \in Doc \ {current} : R.doc[e] = doc[e]
    BY <1>5
  <2> QED
    BY <1>3, <1>4, <2>1, <2>2, <2>3, <2>4, <2>5, HandledCommitted
<1>7. CASE ~(show /\ current # NULL)
  <2>1. Commit(R) /\ Kept(R)
    BY <1>1, <1>2, <1>3, <1>7 DEF Kept
  <2>2. current' \in {e \in Doc : R.doc[e].open} \cup {NULL}
    BY <1>3, <1>5 DEF IInv
  <2> QED
    BY <1>4, <2>1, <2>2, Committed
<1> QED
  BY <1>6, <1>7

\* A server that gets ready has no document open.
LEMMA ServerReady ==
    ASSUME NEW M, NEW f \in Ft, Sound(M), M.server[f].state = "starting"
    PROVE  LET R == [M EXCEPT !.server[f].state = "running"] IN
           /\ Sound(R)
           /\ R.doc = M.doc
           /\ Honest(M) => Honest(R)
<1> DEFINE s == [M.server[f] EXCEPT !.state = "running"]
           R == [M EXCEPT !.server[f].state = "running"]
<1>0. M \in Tables /\ M.server[f] \in ServerType /\ Books(M.server[f])
  BY TablesType DEF Sound
<1>1. /\ s \in ServerType
      /\ s.open_docs = M.server[f].open_docs
      /\ s.mru_docs = M.server[f].mru_docs
      /\ s.view = M.server[f].view
      /\ s.confused = M.server[f].confused
  BY <1>0 DEF ServerType
<1>2. R = [M EXCEPT !.server[f] = s]
  BY <1>0 DEF Tables
<1> HIDE DEF s, R
<1>3. Books(s)
  BY <1>0, <1>1 DEF Books
<1>4. ASSUME Honest(M) PROVE s.open_docs = {} /\ DOMAIN s.view = {} /\ ~s.confused
  <2>1. \A d \in M.server[f].open_docs : GotServer(M, d) = f
    BY <1>4 DEF Honest, Knows
  <2>2. M.server[f].open_docs = {}
    BY <2>1, GotServerType DEF Running
  <2>3. DOMAIN M.server[f].view = {}
    BY <1>4, <2>2 DEF Honest, KnowsOnly
  <2> QED
    BY <1>1, <1>4, <2>2, <2>3 DEF Honest
<1>5. Sound(R) /\ R.doc = M.doc
  BY <1>1, <1>2, <1>3, ServerSetKept
<1>6. Honest(M) => Honest(R)
  BY <1>1, <1>2, <1>3, <1>4, ServerSetKept
<1> QED
  BY <1>5, <1>6 DEF R

\* All documents are asked for their filetype.
Asked(R) ==
    [R EXCEPT !.doc = [d \in Doc |-> IF R.doc[d].open THEN GetFt(R, d).doc[d] ELSE R.doc[d]]]

LEMMA AskedKept ==
    ASSUME NEW R, Sound(R)
    PROVE  /\ Sound(Asked(R))
           /\ Honest(R) => Honest(Asked(R))
           /\ \A d \in Doc : Asked(R).doc[d].open = R.doc[d].open
<1> DEFINE Q == Asked(R)
           q == [d \in Doc |-> IF R.doc[d].open THEN GetFt(R, d).doc[d] ELSE R.doc[d]]
<1>0. R \in Tables /\ (\A d \in Doc : R.doc[d] \in DocType)
  BY TablesType DEF Sound
<1>1. ASSUME NEW d \in Doc, R.doc[d].open PROVE q[d] = GetFt(R, d).doc[d] /\ SameDoc(q[d], R, d)
  <2>1. q[d] = GetFt(R, d).doc[d]
    BY <1>1
  <2>2. SameDoc(GetFt(R, d).doc[d], R, d)
    BY <1>1, GetFtDoc
  <2> QED
    BY <2>1, <2>2
<1>2. ASSUME NEW d \in Doc, ~R.doc[d].open PROVE q[d] = R.doc[d]
  BY <1>2
<1>3. q \in [Doc -> DocType]
  <2>1. \A d \in Doc : q[d] \in DocType
    BY <1>0, <1>1, <1>2 DEF SameDoc
  <2>2. q = [d \in Doc |-> q[d]]
    OBVIOUS
  <2> HIDE DEF q
  <2> QED
    BY <2>1, <2>2
<1>4. Q = [R EXCEPT !.doc = q]
  BY DEF Asked
<1> HIDE DEF q, Q
<1>5. Q \in Tables /\ Q.server = R.server /\ Q.doc = q
  BY <1>0, <1>3, <1>4 DEF Tables
<1>6. \A d \in Doc : q[d].open = R.doc[d].open /\ q[d].path = R.doc[d].path
  BY <1>1, <1>2 DEF SameDoc
<1>7. \A d \in Doc : q[d].open \/ q[d] = Closed
  <2> TAKE d \in Doc
  <2>1. CASE R.doc[d].open
    BY <1>1, <2>1 DEF SameDoc
  <2>2. CASE ~R.doc[d].open
    BY <1>2, <2>2 DEF Sound
  <2> QED
    BY <2>1, <2>2
<1>8. Sound(Q)
  BY <1>5, <1>7 DEF Sound
<1>9. ASSUME Honest(R) PROVE Honest(Q)
  <2>1. ASSUME NEW g \in Ft, NEW e \in Q.server[g].open_docs PROVE Knows(Q, g, e)
    <3>1. e \in Doc
      BY <1>5, <1>8, TablesType DEF Sound, ServerType
    <3>2. Knows(R, g, e)
      BY <1>5, <1>9 DEF Honest
    <3>3. R.doc[e].open /\ R.doc[e].cached_ft = g /\ g # NULL
      BY <3>2, GotServerType DEF Knows
    <3>4. SameDoc(q[e], R, e)
      BY <1>1, <3>1, <3>3
    <3>5. /\ Q.doc[e].open
          /\ Q.doc[e].path = R.doc[e].path
          /\ Q.doc[e].text = R.doc[e].text
          /\ Q.doc[e].version = R.doc[e].version
          /\ Q.doc[e].cached_ft = R.doc[e].cached_ft
      BY <1>5, <3>3, <3>4 DEF SameDoc
    <3>6. GotServer(Q, e) = GotServer(R, e)
      BY <1>5, <3>5, SameServer DEF Running
    <3> QED
      BY <1>5, <3>2, <3>5, <3>6 DEF Knows, UriOf
  <2>2. ASSUME NEW g \in Ft PROVE KnowsOnly(Q, g) /\ ~Q.server[g].confused
    <3>1. KnowsOnly(R, g) /\ ~R.server[g].confused
      BY <1>9 DEF Honest
    <3>2. R.server[g].open_docs \subseteq Doc
      BY TablesType DEF Sound, ServerType
    <3> QED
      BY <1>5, <1>6, <3>1, <3>2 DEF KnowsOnly
  <2> QED
    BY <2>1, <2>2 DEF Honest
<1> QED
  BY <1>5, <1>6, <1>8, <1>9 DEF Q

LEMMA ServerInitializedKept == ASSUME IInv, NEW f \in Ft, ServerInitialized(f) PROVE IInv'
<1> DEFINE R == [M0 EXCEPT !.server[f].state = "running"]
           Q == Asked(R)
           served == {d \in Doc : GotServer(Q, d) = f /\ (Q.doc[d].changed \/ d = current)}
<1>0. Sound(M0) /\ M0.doc = doc /\ M0.server = server
  BY M0Kept
<1>1. PICK order \in SetToSeqs(served) : Commit(DidOpenAll(Q, f, order))
  BY DEF ServerInitialized, Asked
<1>2. /\ current' = current
      /\ session_loaded' \in BOOLEAN
      /\ update_source' \subseteq Doc
  BY DEF ServerInitialized, IInv
<1>3. Sound(R) /\ R.doc = doc /\ (Honest(M0) => Honest(R))
  BY <1>0, ServerReady DEF ServerInitialized
<1> HIDE DEF R
<1>4. /\ Sound(Q)
      /\ Honest(R) => Honest(Q)
      /\ \A d \in Doc : Q.doc[d].open = R.doc[d].open
  BY <1>3, AskedKept
<1> HIDE DEF Q
<1>5. order \in Seq(Doc) /\ (\A i \in 1 .. Len(order) : order[i] \in served)
  <2>1. served \in SUBSET Doc
    OBVIOUS
  <2> HIDE DEF served
  <2>2. Cardinality(served) \in Nat
    BY <2>1, FS_Subset, FS_CardinalityType
  <2>3. order \in [1 .. Cardinality(served) -> served]
    BY DEF SetToSeqs
  <2> QED
    BY <2>1, <2>2, <2>3
<1>6. \A d \in served : Q.doc[d].open /\ GotServer(Q, d) = f
  <2> TAKE d \in served
  <2>1. d \in Doc /\ GotServer(Q, d) = f
    OBVIOUS
  <2>2. Q.doc[d].path # NULL
    BY <2>1, GotServerType
  <2>3. Q.doc[d].open
    BY <1>4, <2>1, <2>2 DEF Sound, Closed
  <2> QED
    BY <2>1, <2>3
<1> HIDE DEF served
<1> DEFINE N == DidOpenAll(Q, f, order)
<1>7. /\ Sound(N)
      /\ Honest(Q) => Honest(N)
      /\ \A d \in Doc : N.doc[d].open = Q.doc[d].open
  <2>1. Sound(Q)
    BY <1>4
  <2>2. \A i \in 1 .. Len(order) : Q.doc[order[i]].open /\ GotServer(Q, order[i]) = f
    BY <1>5, <1>6
  <2> QED
    BY <1>5, <2>1, <2>2, DidOpenAllKept
<1> HIDE DEF N
<1>8. Kept(N)
  BY <1>3, <1>4, <1>7 DEF Kept
<1>9. current' \in {d \in Doc : N.doc[d].open} \cup {NULL}
  BY <1>2, <1>3, <1>4, <1>7 DEF IInv
<1>10. Commit(N)
  BY <1>1 DEF N
<1> QED
  BY <1>2, <1>8, <1>9, <1>10, Committed

-----------------------------------------------------------------------------
(* The theorems *)

LEMMA InitIInv == Init => IInv
<1> SUFFICES ASSUME Init PROVE IInv
  OBVIOUS
<1>1. Sound(M0)
  BY FreshType, ClosedType DEF Init, M0, Sound, Tables
<1>2. Honest(M0)
  BY FreshType DEF Init, M0, Honest, KnowsOnly
<1>3. \A d \in Doc : ~Stale(M0, d)
  BY ClosedType DEF Init, M0, Stale
<1> QED
  BY <1>1, <1>2, <1>3 DEF Init, IInv

LEMMA NextIInv == IInv /\ [Next]_vars => IInv'
<1> SUFFICES ASSUME IInv, [Next]_vars PROVE IInv'
  OBVIOUS
<1>1. ASSUME NEW d \in Doc, NewDocument(d) PROVE IInv'
  BY <1>1, NewDocumentKept
<1>2. ASSUME NEW d \in Doc, NEW n \in NameOf[d], NEW f \in FtOf[d], OpenDocument(d, n, f)
      PROVE  IInv'
  BY <1>2, OpenDocumentKept
<1>3. ASSUME NEW d \in Doc, Activate(d) PROVE IInv'
  BY <1>3, ActivateKept
<1>4. ASSUME NEW d \in Doc, Query(d) PROVE IInv'
  BY <1>4, QueryKept
<1>5. ASSUME NEW d \in Doc, NEW kind, Edit(d, kind) PROVE IInv'
  BY <1>5, EditKept
<1>6. ASSUME NEW d \in Doc, UpdateIdle(d) PROVE IInv'
  BY <1>6, UpdateIdleKept
<1>7. ASSUME NEW d \in Doc, NEW f \in FtOf[d], SetFiletype(d, f) PROVE IInv'
  BY <1>7, SetFiletypeKept
<1>8. ASSUME NEW d \in Doc, Save(d) PROVE IInv'
  BY <1>8, SaveKept
<1>9. ASSUME NEW d \in Doc, NEW n \in NameOf[d], SaveAs(d, n) PROVE IInv'
  BY <1>9, SaveAsKept
<1>10. ASSUME NEW d \in Doc, CloseDocument(d) PROVE IInv'
  BY <1>10, CloseDocumentKept
<1>11. ASSUME NEW f \in Ft, ServerInitialized(f) PROVE IInv'
  BY <1>11, ServerInitializedKept
<1>12. ASSUME NEW f \in Ft, ServerCrashed(f) PROVE IInv'
  BY <1>12, ServerCrashedKept
<1>13. ASSUME NEW show \in BOOLEAN, RestartAll(show) PROVE IInv'
  BY <1>13, RestartAllKept
<1>14. ASSUME UNCHANGED vars PROVE IInv'
  <2>1. M0' = M0
    BY <1>14 DEF vars, M0
  <2> QED
    BY <1>14, <2>1 DEF vars, IInv
<1> QED
  BY <1>1, <1>2, <1>3, <1>4, <1>5, <1>6, <1>7, <1>8, <1>9, <1>10, <1>11, <1>12, <1>13,
     <1>14 DEF Next

LEMMA SpecIInv == Spec => []IInv
BY InitIInv, NextIInv, PTL DEF Spec

\* The tables keep their types: no server runs that has no filetype, and what is kept with
\* a closed document went with it.
THEOREM TypeCorrect == Spec => []TypeOK
<1>1. IInv => TypeOK
  <2> SUFFICES ASSUME IInv PROVE TypeOK
    OBVIOUS
  <2>1. /\ M0.doc = doc /\ M0.server = server
        /\ Sound(M0)
    BY M0Kept
  <2>2. /\ doc \in [Doc -> DocType]
        /\ \A d \in Doc : doc[d].open \/ doc[d] = Closed
        /\ server \in [Ft -> ServerType]
    BY <2>1 DEF Sound, Tables
  <2>3. ASSUME NEW f \in Ft PROVE IsServer(server[f])
    <3> DEFINE s == server[f]
    <3>1. s \in ServerType
      BY <2>2
    <3> HIDE DEF s
    <3>2. ViewOK(s.view)
      BY <3>1 DEF ServerType, View, ViewOK
    <3>3. IsServer(s)
      BY <3>1, <3>2 DEF ServerType, IsServer
    <3> QED
      BY <3>3 DEF s
  <2> QED
    BY <2>2, <2>3 DEF IInv, TypeOK
<1> QED
  BY <1>1, SpecIInv, PTL

\* The two books of the open documents agree, and hold no more than MRU_SIZE documents,
\* whatever documents and servers there are.
THEOREM BooksAgree == Spec => []OpenBounded
<1>1. IInv => OpenBounded
  BY M0Kept DEF Sound, Books, OpenBounded
<1> QED
  BY <1>1, SpecIInv, PTL

\* As long as no document has a stale filetype, the server of a document that is open
\* there has its text and its version.
THEOREM ServersMirror ==
    ASSUME StaleFt = FALSE
    PROVE  Spec => []Mirrored
<1>1. IInv => Mirrored
  <2> SUFFICES ASSUME IInv, NEW f \in Ft, NEW d \in server[f].open_docs
               PROVE  /\ doc[d].open /\ UriOf(M0, d) \in DOMAIN server[f].view
                      /\ server[f].view[UriOf(M0, d)] =
                             [text |-> doc[d].text, version |-> doc[d].version]
    BY DEF Mirrored
  <2>1. M0.doc = doc /\ M0.server = server /\ Honest(M0)
    BY M0Kept DEF IInv
  <2>2. Knows(M0, f, d)
    BY <2>1 DEF Honest
  <2> QED
    BY <2>1, <2>2 DEF Knows
<1> QED
  BY <1>1, SpecIInv, PTL

\* As long as no document has a stale filetype, no server is told to open what is open
\* there, to close, change or save what is not, or that a version went back.
THEOREM NoServerConfused ==
    ASSUME StaleFt = FALSE
    PROVE  Spec => []ProtocolKept
<1>1. IInv => ProtocolKept
  BY M0Kept DEF IInv, Honest, ProtocolKept
<1> QED
  BY <1>1, SpecIInv, PTL

\* As long as no document has a stale filetype, a document is open at the server that
\* serves it and at no other, and under the name it has.
THEOREM OpenAtItsServer ==
    ASSUME StaleFt = FALSE
    PROVE  Spec => []OpenWhereServed
<1>1. IInv => OpenWhereServed
  <2> SUFFICES ASSUME IInv, NEW f \in Ft, NEW u \in DOMAIN server[f].view
               PROVE  /\ u[1] \in server[f].open_docs
                      /\ u[2] = doc[u[1]].path
                      /\ GotServer(M0, u[1]) = f
    BY DEF OpenWhereServed
  <2>1. Honest(M0) /\ M0.doc = doc /\ M0.server = server
    BY M0Kept DEF IInv
  <2>2. u[1] \in server[f].open_docs /\ u[2] = doc[u[1]].path
    BY <2>1 DEF Honest, KnowsOnly
  <2> QED
    BY <2>1, <2>2 DEF Honest, Knows
<1> QED
  BY <1>1, SpecIInv, PTL
=============================================================================
