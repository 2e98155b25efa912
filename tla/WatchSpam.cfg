SPECIFICATION WatchSpec

CONSTANTS
    alice = alice
    bob = bob
    area = area
    pin = pin
    vessel = vessel
    incident = incident
    Users = {alice, bob}
    LocalUser = alice
    Expired = {bob}
    Rules = {area, pin}
    Owner <- MCOwner
    Watches <- MCWatches
    Pinned = {pin}
    Floor <- MCFloor
    Sinked = {area}
    Contacts = {vessel}
    Incidents = {incident}
    Sightings <- MCSightings
    MaxSweeps = 2
    MaxFaults = 1

INVARIANT
    EntersOnce
