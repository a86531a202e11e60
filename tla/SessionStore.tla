---------------------------- MODULE SessionStore ----------------------------
(***************************************************************************)
(* session.py and the state kept per client session: the preferences       *)
(* overlays of preferences.py, and the last city and the resolve cache of  *)
(* geocode/_session.py, which the calls of _resolve.py and the speculative *)
(* legs of _named_places.py read and write.                                *)
(***************************************************************************)
EXTENDS Naturals, Sequences, FiniteSets, LruOrder

CONSTANTS
    Session,      \* client sessions, of an HTTP server
    Ephemeral,    \* those that live for one request
    MaxSessions,  \* _OVERLAY_SESSIONS_MAX, _LAST_GOOD_SESSIONS_MAX
    MaxAnswers,   \* _RESOLVE_LRU_MAX
    Field, Value, \* of the preferences document
    City,
    Leg, Direct,  \* speculative and ordinary resolves that may be under way
    Bare,         \* the text of a POI-shaped query that names no city
    Unset, None

Call == Leg \cup Direct
Text == City \cup {Bare}

\* What is assumed of the constants.
Assumptions ==
    /\ Ephemeral \subseteq Session
    /\ MaxSessions \in Nat \ {0} /\ MaxAnswers \in Nat \ {0}
    /\ Leg \cap Direct = {}
    /\ Field # {} /\ {None, Unset} \cap (City \cup Value) = {} /\ Bare \notin City /\ None # Unset

VARIABLES
    overlays,  \* _overlays
    lastGood,  \* _last_good_by_session
    answers,   \* _resolve_lru: keys, and what their rows were found for
    call,      \* the resolves under way
    told       \* ghost, by store: what each session stored, who came since

vars == <<overlays, lastGood, answers, call, told>>

-----------------------------------------------------------------------------
(* An OrderedDict used as a bounded LRU, see LruOrder.                     *)

Nothing(F) == [f \in F |-> Unset]
NewLru(F) == [order |-> {}, held |-> [s \in Session |-> Nothing(F)]]

\* The fields `new' sets go over those of `old'.
Merge(old, new) == [f \in DOMAIN old |-> IF new[f] = Unset THEN old[f] ELSE new[f]]

\* move_to_end() of an entry there is.
Touch(l, s) == IF s \in In(l.order) THEN [l EXCEPT !.order = Used(@, s)] ELSE l

\* popitem(last=False) while there are too many.
Trim(l) ==
    LET gone == Surplus(l.order, MaxSessions)
    IN [order |-> Without(l.order, gone),
        held |-> [s \in Session |-> IF s \in gone THEN Nothing(DOMAIN l.held[s]) ELSE l.held[s]]]

\* pop() of one session.
Drop(l, s) == [order |-> Without(l.order, {s}), held |-> [l.held EXCEPT ![s] = Nothing(DOMAIN @)]]

\* _set_overlay(), _remember_last_city()
Put(l, s, new, replace) ==
    IF s \in Ephemeral THEN l
    ELSE Trim([order |-> Used(l.order, s),
               held |-> [l.held EXCEPT ![s] = IF replace THEN new ELSE Merge(@, new)]])

-----------------------------------------------------------------------------
(* What a session may rely on: all it has stored itself, until MaxSessions *)
(* others have used the store since it last did.                           *)

NewTold(F) == [stored |-> [s \in Session |-> Nothing(F)], since |-> [s \in Session |-> {}]]

ToldUse(g, s, new) ==
    LET since == [t \in Session |-> IF t = s THEN {} ELSE g.since[t] \cup {s}]
        stored == [g.stored EXCEPT ![s] = new]
        none == Nothing(DOMAIN new)
        Kept(t) == stored[t] # none /\ Cardinality(since[t]) < MaxSessions
    IN IF s \in Ephemeral \/ new = none THEN g
       ELSE [stored |-> [t \in Session |-> IF Kept(t) THEN stored[t] ELSE none],
             since |-> [t \in Session |-> IF Kept(t) THEN since[t] ELSE {}]]

ToldDrop(g, s) ==
    [stored |-> [g.stored EXCEPT ![s] = Nothing(DOMAIN @)],
     since |-> [t \in Session |-> IF t = s THEN {} ELSE g.since[t] \ {s}]]

ToldRead(g, s) == ToldUse(g, s, g.stored[s])
ToldWrite(g, s, new) == ToldUse(g, s, Merge(g.stored[s], new))

-----------------------------------------------------------------------------
NoAnswers == [order |-> {}, rows |-> [key \in {} |-> None]]

NoCall == [at |-> "idle", session |-> None, text |-> None, hint |-> None, rows |-> None, todo |-> <<>>]

Init ==
    /\ overlays = NewLru(Field) /\ lastGood = NewLru({"city"})
    /\ answers = NoAnswers
    /\ call = [c \in Call |-> NoCall]
    /\ told = [prefs |-> NewTold(Field), city |-> NewTold({"city"})]

\* update() over HTTP, which answers with the layered document.
UpdatePreferences(s, new) ==
    /\ new # Nothing(Field)
    /\ overlays' = Touch(Put(overlays, s, new, FALSE), s)
    /\ told' = [told EXCEPT !.prefs = ToldWrite(@, s, new)]
    /\ UNCHANGED <<lastGood, answers, call>>

\* clear() over HTTP: every field is set to its default.
ClearPreferences(s) ==
    /\ overlays' = Put(overlays, s, [f \in Field |-> None], TRUE)
    /\ told' = [told EXCEPT !.prefs = ToldUse(@, s, [f \in Field |-> None])]
    /\ UNCHANGED <<lastGood, answers, call>>

\* load(), get()
ReadPreferences(s) ==
    /\ overlays' = Touch(overlays, s)
    /\ told' = [told EXCEPT !.prefs = ToldRead(@, s)]
    /\ UNCHANGED <<lastGood, answers, call>>

-----------------------------------------------------------------------------
(* _resolve_place_impl(): what it would write to the stores is in todo, in *)
(* the order it is to be written.  An ordinary call writes as it goes, a   *)
(* speculative leg when it is joined.                                      *)

Become(c, k) == call' = [call EXCEPT ![c] = k]

\* A call goes on with the same query.
GoOn(c, at, rows, todo) ==
    LET k == call[c]
    IN Become(c, [at |-> at, session |-> k.session, text |-> k.text, hint |-> k.hint, rows |-> rows, todo |-> todo])

\* The city of the query's text, else the session's last one.
Begin(c, s, text) ==
    /\ call[c].at = "idle"
    /\ LET named == text \in City
           last == lastGood.held[s]["city"]
           Start(hint, todo) == Become(c, [at |-> "lookup", session |-> s, text |-> text, hint |-> hint,
                                           rows |-> None, todo |-> todo])
       IN \/ named /\ Start(text, <<>>) /\ UNCHANGED <<lastGood, told>>
          \/ ~named /\ c \in Leg /\ Start(last, <<"touch">>) /\ UNCHANGED <<lastGood, told>>
          \/ /\ ~named /\ c \notin Leg /\ Start(last, <<>>)
             /\ lastGood' = Touch(lastGood, s)
             /\ told' = [told EXCEPT !.city = ToldRead(@, s)]
    /\ UNCHANGED <<overlays, answers>>

\* A key that leaves the inferred city out.
TextKey(text, hint) == <<text, Unset>>

\* _resolve_cache_key()
CacheKey(text, hint) == <<text, hint>>

KeyOf(c) == CacheKey(call[c].text, call[c].hint)
Cached(key) == key \in In(answers.order)
TouchAnswer(key) == IF Cached(key) THEN [answers EXCEPT !.order = Used(@, key)] ELSE answers

\* _resolve_cache_put()
PutAnswer(key, rows) ==
    LET order == Used(answers.order, key)
        kept == Without(order, Surplus(order, MaxAnswers))
    IN [order |-> kept, rows |-> [k \in In(kept) |-> IF k = key THEN rows ELSE answers.rows[k]]]

\* _resolve_cache_get(), which finds the rows: nothing else is written.
Hit(c) ==
    /\ call[c].at = "lookup" /\ Cached(KeyOf(c))
    /\ LET rows == answers.rows[KeyOf(c)]
       IN \/ /\ c \in Leg /\ GoOn(c, "leg", rows, Append(call[c].todo, "touchAnswer"))
             /\ UNCHANGED answers
          \/ c \notin Leg /\ GoOn(c, "over", rows, <<>>) /\ answers' = TouchAnswer(KeyOf(c))
    /\ UNCHANGED <<overlays, lastGood, told>>

\* The searches for text near hint: with no rows the city is not remembered.
Search(c, found) ==
    /\ call[c].at = "lookup" /\ ~Cached(KeyOf(c))
    /\ GoOn(c, IF c \in Leg THEN "leg" ELSE "writing", <<call[c].text, call[c].hint>>,
            call[c].todo \o IF found THEN <<"put", "remember">> ELSE <<"put">>)
    /\ UNCHANGED <<overlays, lastGood, answers, told>>

\* _SpeculativeLeg.join(): commit() is next.
Join(c) ==
    /\ call[c].at = "leg"
    /\ GoOn(c, "writing", call[c].rows, call[c].todo)
    /\ UNCHANGED <<overlays, lastGood, answers, told>>

\* _SpeculativeLeg.discard(), at whatever point the leg is.
Discard(c) ==
    /\ c \in Leg /\ call[c].at \in {"lookup", "leg"}
    /\ Become(c, NoCall)
    /\ UNCHANGED <<overlays, lastGood, answers, told>>

\* The next write of a call: each takes its lock on its own.  `top' is the
\* city of the first row, which is remembered when no hint was used.
Write(c, top) ==
    LET k == call[c]
        city == [f \in {"city"} |-> IF k.hint = Unset THEN top ELSE k.hint]
    IN /\ k.at = "writing"
       /\ GoOn(c, IF Len(k.todo) = 1 THEN "over" ELSE "writing", k.rows, Tail(k.todo))
       /\ CASE Head(k.todo) = "touch" -> /\ lastGood' = Touch(lastGood, k.session)
                                         /\ told' = [told EXCEPT !.city = ToldRead(@, k.session)]
                                         /\ UNCHANGED answers
            [] Head(k.todo) = "touchAnswer" -> /\ answers' = TouchAnswer(KeyOf(c))
                                               /\ UNCHANGED <<lastGood, told>>
            [] Head(k.todo) = "put" -> /\ answers' = PutAnswer(KeyOf(c), k.rows)
                                       /\ UNCHANGED <<lastGood, told>>
            [] OTHER -> /\ lastGood' = Put(lastGood, k.session, city, FALSE)
                        /\ told' = [told EXCEPT !.city = ToldWrite(@, k.session, city)]
                        /\ UNCHANGED answers
       /\ UNCHANGED overlays

Answer(c) ==
    /\ call[c].at = "over"
    /\ Become(c, NoCall)
    /\ UNCHANGED <<overlays, lastGood, answers, told>>

\* clear_resolve_session()
Forget(s) ==
    /\ answers' = NoAnswers
    /\ lastGood' = Drop(lastGood, s)
    /\ told' = [told EXCEPT !.city = ToldDrop(@, s)]
    /\ UNCHANGED <<overlays, call>>

NextPreferences ==
    \E s \in Session :
        \/ \E new \in [Field -> Value \cup {None, Unset}] : UpdatePreferences(s, new)
        \/ ClearPreferences(s) \/ ReadPreferences(s)

NextResolve ==
    \/ \E c \in Call :
          \/ \E s \in Session, text \in Text : Begin(c, s, text)
          \/ Hit(c) \/ (\E found \in BOOLEAN : Search(c, found))
          \/ Join(c) \/ Discard(c) \/ (\E top \in City : Write(c, top)) \/ Answer(c)
    \/ \E s \in Session : Forget(s)

Next == NextPreferences \/ NextResolve

Spec == Init /\ [][Next]_vars

-----------------------------------------------------------------------------
Lru(F, V) == [order : SUBSET (Session \X Session), held : [Session -> [F -> V \cup {Unset}]]]
Key == Text \X (City \cup {Unset})
Writes == Seq({"touch", "touchAnswer", "put", "remember"})
Resolve ==
    [at : {"idle", "lookup", "leg", "writing", "over"}, session : Session \cup {None}, text : Text \cup {None},
     hint : City \cup {Unset, None}, rows : Key \cup {None}, todo : Writes]

\* Who has stored something.
Holders(l) == {s \in Session : l.held[s] # Nothing(DOMAIN l.held[s])}

TypeOK ==
    /\ overlays \in Lru(Field, Value \cup {None})
    /\ lastGood \in Lru({"city"}, City)
    /\ answers \in [order : SUBSET (Key \X Key), rows : [In(answers.order) -> Key]]
    /\ call \in [Call -> Resolve]

\* However the calls of all sessions interleave, a session finds exactly what
\* it has stored itself, as long as fewer than MaxSessions others have used the
\* store since, and nothing otherwise; one-request sessions and speculative
\* legs that are discarded cost it nothing.
RecentSessionsKeepState ==
    /\ overlays.held = told.prefs.stored /\ lastGood.held = told.city.stored
    /\ In(overlays.order) = Holders(overlays) /\ In(lastGood.order) = Holders(lastGood)

\* The rows a resolve answers with were searched for near the city that it
\* inferred for its own session, also when they are from the cache.
AnswersFitTheCity ==
    \A c \in Call : call[c].rows # None => call[c].rows = <<call[c].text, call[c].hint>>

\* The bounds of the stores.
StoresStayBounded ==
    /\ Cardinality(In(overlays.order)) <= MaxSessions /\ Cardinality(In(lastGood.order)) <= MaxSessions
    /\ Cardinality(In(answers.order)) <= MaxAnswers

SessionsKeepApart == RecentSessionsKeepState /\ AnswersFitTheCity /\ StoresStayBounded

-----------------------------------------------------------------------------
(* What a proof of these needs of the steps in between.                    *)

\* An LRU holds those that have stored something, never a session of one
\* request, and they are told of exactly those that came after them.
StoreIsTold(l, g) ==
    LET H == Holders(l)
    IN /\ IsOrder(l.order, H)
       /\ IsFiniteSet(H) /\ Cardinality(H) <= MaxSessions /\ H \cap Ephemeral = {}
       /\ g = [stored |-> l.held,
               since |-> [s \in Session |-> IF s \in H THEN After(l.order, s) ELSE {}]]

\* The cache keeps rows under the city they were searched for.
AnswersFitTheirKeys ==
    /\ IsOrder(answers.order, In(answers.order)) /\ IsFiniteSet(In(answers.order))
    /\ Cardinality(In(answers.order)) <= MaxAnswers
    /\ \A key \in In(answers.order) : answers.rows[key] = key

\* A call that looks up, writes or waits to be joined has all it needs.
CallsAreWhole ==
    \A c \in Call :
        /\ call[c].at # "idle" => call[c].session \in Session /\ call[c].text \in Text /\ call[c].hint \in City \cup {Unset}
        /\ call[c].at \in {"leg", "writing"} => call[c].rows = <<call[c].text, call[c].hint>> /\ call[c].todo # <<>>

IInv ==
    /\ TypeOK
    /\ told = [prefs |-> told.prefs, city |-> told.city]
    /\ StoreIsTold(overlays, told.prefs)
    /\ StoreIsTold(lastGood, told.city)
    /\ AnswersFitTheirKeys /\ AnswersFitTheCity /\ CallsAreWhole
=============================================================================
