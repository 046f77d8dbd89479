\* Two keys of every keyboard, on every pair of systems.
SPECIFICATION Spec
CONSTANT
    MaxKeys = 2
INVARIANT TypeOK
 
 
