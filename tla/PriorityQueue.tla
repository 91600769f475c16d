----------------------------- MODULE PriorityQueue -----------------------------
\* The priority queue of lualib/meiru/lib/pqueue.lua: a binary heap in an array,
\* and for each element its index.  A queue is [array |-> ..., map |-> ...];
\* indices start at 0, as in the code, and array[i+1] is element i.
EXTENDS Integers, Sequences, Functions

CONSTANT Before(_, _)   \* compare(x, y) < 0

Empty == [array |-> <<>>, map |-> <<>>]
count(q) == Len(q.array)
peek(q) == q.array[1]
In(q, x) == x \in DOMAIN q.map

\* array[i+1], map[x] = x, i
Put(q, i, x) ==
    [array |-> [j \in 1 .. (IF i = count(q) THEN i + 1 ELSE count(q)) |->
                   IF j = i + 1 THEN x ELSE q.array[j]],
     map |-> [e \in DOMAIN q.map \cup {x} |-> IF e = x THEN i ELSE q.map[e]]]
Forget(q, x) == [q EXCEPT !.map = [e \in DOMAIN q.map \ {x} |-> q.map[e]]]
Cut(q) == [q EXCEPT !.array = SubSeq(@, 1, Len(@) - 1)]

\* The loops: the queue and the free place after n rounds; then x is put there.
Parent(i) == (i - 1) \div 2
SiftUp(q, i, x) ==
    LET round[n \in 0 .. i] ==
            IF n = 0 THEN [q |-> q, i |-> i]
            ELSE LET r == round[n - 1]
                     above == r.q.array[Parent(r.i) + 1]
                 IN IF r.i > 0 /\ Before(x, above)
                    THEN [q |-> Put(r.q, r.i, above), i |-> Parent(r.i)] ELSE r
    IN Put(round[i].q, round[i].i, x)

Sink(q, i, x, Child(_, _)) ==
    LET round[n \in 0 .. count(q)] ==
            IF n = 0 THEN [q |-> q, i |-> i]
            ELSE LET r == round[n - 1]
                     child == Child(r.q, r.i)
                     below == r.q.array[child + 1]
                 IN IF r.i < count(q) \div 2 /\ Before(below, x)
                    THEN [q |-> Put(r.q, r.i, below), i |-> child] ELSE r
    IN Put(round[count(q)].q, round[count(q)].i, x)

\* Mutant: of two children the left one is taken.
Left(q, i) == 2 * i + 1
SiftDownLeft(q, i, x) == Sink(q, i, x, Left)

First(q, i) ==
    LET left == 2 * i + 1
        right == left + 1
    IN IF right < count(q) /\ Before(q.array[right + 1], q.array[left + 1]) THEN right ELSE left
SiftDown(q, i, x) == Sink(q, i, x, First)

offer(q, x) == SiftUp(q, count(q), x)
poll(q) ==
    LET x == q.array[count(q)]
    IN Forget(IF count(q) = 1 THEN Cut(q) ELSE SiftDown(Cut(q), 0, x), peek(q))

\* remove: the last element takes the place, and sinks from there.
remove(q, e) ==
    LET i == q.map[e]
        x == q.array[count(q)]
    IN IF i = count(q) - 1 THEN Forget(Cut(q), e)
       ELSE SiftDown(Forget(Cut(q), e), i, x)
================================================================================
