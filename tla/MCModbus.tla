----------------------------- MODULE MCModbus -----------------------------
(* Instance of Modbus for TLC.                                             *)
EXTENDS Modbus

\* The requests of the application (RtuClient.c:93, TcpClient.c:441), every
\* builder once, numbers of coils that are and are not a multiple of eight, and
\* replies around the 255 bytes a uint8_t counts
MCRequests ==
    LET Ask(port, fc, start, arg) ==
            [port |-> port, addr |-> 1, fc |-> fc, start |-> start, arg |-> arg]
    IN  {Ask("rtu", 1, 0, 8), Ask("rtu", 1, 19, 21), Ask("rtu", 2, 258, 5),
         Ask("rtu", 3, 107, 3), Ask("rtu", 4, 8, 1), Ask("rtu", 5, 172, 1),
         Ask("rtu", 5, 4660, 0), Ask("rtu", 6, 1, 772),
         Ask("tcp", 1, 0, 10), Ask("tcp", 2, 300, 8), Ask("tcp", 3, 513, 124),
         Ask("tcp", 3, 0, 125), Ask("tcp", 4, 1, 28), Ask("tcp", 5, 9, 1),
         Ask("tcp", 5, 9, 0), Ask("tcp", 6, 258, 65535)}

MCCoil(a) == IF a % 3 = 0 \/ a % 7 = 2 THEN 1 ELSE 0

MCReg(a) == (4099 * a + 517) % 65536

===========================================================================
