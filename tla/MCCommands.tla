----------------------------- MODULE MCCommands -----------------------------
(* Values for the constants of Commands that a .cfg cannot write.          *)
EXTENDS Commands

CONSTANTS all, one, seven, pc, pc2, office, m1, m2, m3,
          bot, onbot, on, list, help, whoami, last

MCTargets == {all, one, seven, pc, pc2, office, m1, m2, m3}
MCWords == MCTargets \cup {Empty, bot, onbot, on, list, help, whoami, last}
MCBefore == [w \in MCWords |-> IF w = bot THEN Empty
                               ELSE IF w = onbot THEN on ELSE w]
MCNumeral == {one, seven}
MCNumber == [w \in MCNumeral |-> IF w = one THEN 1 ELSE 7]
MCWithin == {<<w, w>> : w \in MCWords} \cup {<<pc, pc2>>}

\* Up to three devices: a plain name, one that contains it, one of two words,
\* and one that is a number; their MACs are distinct.
MCNames == {<<pc>>, <<pc2>>, <<office, pc>>, <<one>>}
MCMac == <<m1, m2, m3>>
MCDeviceLists ==
    UNION {{[i \in 1..n |-> [name |-> names[i], mac |-> MCMac[i]]] :
              names \in [1..n -> MCNames]} : n \in 0..3}

\* /on with up to two arguments; the commands with and without mentions,
\* separated by either blank; and targets of the relay.
MCQueries == {<<on>>} \cup {<<on, Space, w>> : w \in MCTargets}
               \cup {<<on, Space, v, Space, w>> : v, w \in MCTargets}
MCPrefixes == {<<>>, <<Space>>, <<bot, Space>>, <<bot, Line>>, <<bot, Space, bot, Space>>}
MCCalls == {<<>>, <<list>>, <<help>>, <<whoami>>, <<last>>, <<pc>>, <<onbot>>, <<bot>>,
            <<onbot, Line, one>>, <<on, Space, one, Line, pc>>}
MCTexts == MCQueries \cup {p \o c : p \in MCPrefixes, c \in MCCalls}
             \cup {<<w>> : w \in MCTargets} \cup {<<one, Space, pc>>}
=============================================================================
