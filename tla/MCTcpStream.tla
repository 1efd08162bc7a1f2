---------------------------- MODULE MCTcpStream ----------------------------
\* Instances of TcpStream for TLC.
EXTENDS TcpStream

\* the client's numbers wrap after its second byte
MCIss == [client |-> 30, server |-> 7]
MCWriters == {"client"}
\* less than a segment, and two segments
MCLengths == {1, 4}
MCCopies == {TRUE}
\* Nagle's algorithm is on, as nothing in the program turns it off
MCNoDelay == {FALSE}
MCTakes == {"now", "later", "refuse"}
ReadAtOnce == {"now"}
=============================================================================
