SPECIFICATION Spec
CONSTANT MinutesPerDay = 6
PROPERTY OpensWhenSaid
