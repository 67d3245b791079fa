CONSTANTS
    Client <- MCClient
    RoomName = {general, devs, ops}
    General = general
    Admin = admin
    Password = {nopw, secret}
    NoPassword = nopw
    Topic = {welcome, notopic, t1}
    WelcomeTopic = welcome
    NoTopic = notopic
    NoRoom = noroom
SPECIFICATION Spec
INVARIANT TypeOK
INVARIANT RoomIndexConsistent
PROPERTY AbstractSpec
